---- MODULE Spec2Model ----
(***************************************************************************)
(* Model of fxDns: a caching, rewriting DNS forwarder.                     *)
(*                                                                         *)
(* A domain name is the sequence of its labels, i.e. strings.Split(s, ".") *)
(* of the Go string: "a.cdn.com." is <<"a","cdn","com","">>, the empty     *)
(* string is <<"">>.  A string ends with '.' iff it has at least two       *)
(* labels and the last one is empty.  An IPv4 address is a number of       *)
(* AddrBits bits; a prefix is [base, bits] as net.ParseCIDR yields it.     *)
(***************************************************************************)
EXTENDS Integers, Sequences, FiniteSets, TLC

\* ------------------------------------------------------------------ bounds
\* Number of ServeDNS goroutines SpecPool runs side by side.
NumHandlers == 2
\* The clock stops advancing at MaxTime.
MaxTime == 2
\* Number of configuration reloads after start-up.
MaxReloads == 1
\* Longest answer section of a primary reply in SpecPipeline.
MaxAns == 2
\* Longest answer section given to filterNonCDNIPs in SpecFilter.
MaxFilterAns == 3

\* --------------------------------------------------------------- constants
AddrBits == 2
\* labels in a name given to the matchers
MaxLabels == 3
\* records in a response whose CNAME links are traversed
MaxChainAns == 3
\* names TraceChain may append before the run is cut off
MaxChain == 4
\* calls of ConfigManager.LoadConfig, the initial load included
MaxLoads == 3
\* length of ConfigManager.listeners
MaxListeners == 3

StrategyFilterNonCDN == "filter_non_cdn"
StrategyReturnCDNA == "return_cdn_a"
StrategyNone == "none"
RcodeSuccess == 0
RcodeServerFailure == 2
DefaultTTL == 60

\* ------------------------------------------------------------ string model
\* strings.ToLower on one label (the model's only upper-case label is "A").
ToLowerLabel(l) == IF l = "A" THEN "a" ELSE l

\* strings.ToLower on a name.
ToLower(d) == [i \in DOMAIN d |-> ToLowerLabel(d[i])]

\* the string ends with '.'
EndsWithDot(d) == Len(d) >= 2 /\ d[Len(d)] = ""

\* strings.TrimSuffix(d, ".")
TrimDot(d) == IF EndsWithDot(d) THEN SubSeq(d, 1, Len(d) - 1) ELSE d

\* normalizeDomain: drop one trailing dot, then lower-case.
normalizeDomain(d) == ToLower(TrimDot(d))

\* strings.HasPrefix(pattern, "*.")
IsWildcard(p) == Len(p) >= 2 /\ p[1] = "*"

\* strings.Contains(pattern, "*") (the model has no "?" label)
HasGlob(p) == \E i \in DOMAIN p : p[i] = "*"

\* strings.HasSuffix(d, "." + suffix), suffix given by its labels
HasDotSuffix(d, suffix) ==
    /\ Len(d) > Len(suffix)
    /\ SubSeq(d, Len(d) - Len(suffix) + 1, Len(d)) = suffix

\* regexp.Compile succeeds on the translated pattern (the model's only label
\* that is no regular expression is "[")
Compiles(p) == \A i \in DOMAIN p : p[i] # "["

\* regexp "^" + glob + "$" where "." is literal and "*" is ".*": a "*" label
\* matches any string, that is any non-empty run of labels.
RECURSIVE GlobMatch(_, _)
GlobMatch(p, d) ==
    IF p = <<>> THEN d = <<>>
    ELSE IF Head(p) = "*"
         THEN \E k \in 1..Len(d) : GlobMatch(Tail(p), SubSeq(d, k + 1, Len(d)))
         ELSE d # <<>> /\ Head(d) = Head(p) /\ GlobMatch(Tail(p), Tail(d))

\* the "check sub-domains" loop: "*." + join(parts[i:]) == pattern for an i >= 1
SubDomainLoop(p, d) ==
    /\ Len(d) >= 2
    /\ \E i \in 2..Len(d) : <<"*">> \o SubSeq(d, i, Len(d)) = p

\* a config.MatchDomain whose wildcard also matches the apex
ConfigMatchDomainApex(pattern, domain) ==
    LET d == TrimDot(domain) IN
    \/ pattern = d
    \/ IsWildcard(pattern) /\ d = Tail(pattern)
    \/ /\ IsWildcard(pattern)
       /\ \/ HasDotSuffix(d, Tail(pattern))
          \/ SubDomainLoop(pattern, d)
    \/ HasGlob(pattern) /\ Compiles(pattern) /\ GlobMatch(pattern, d)

\* config.MatchDomain (used by Config.GetDomainStrategy)
ConfigMatchDomain(pattern, domain) ==
    LET d == TrimDot(domain) IN
    \/ pattern = d
    \/ /\ IsWildcard(pattern)
       /\ \/ HasDotSuffix(d, Tail(pattern))
          \/ SubDomainLoop(pattern, d)
    \/ HasGlob(pattern) /\ Compiles(pattern) /\ GlobMatch(pattern, d)

\* util.MatchDomain (used by the server's per-rule lookups)
UtilMatchDomain(pattern, domain) ==
    LET d == normalizeDomain(domain)
        p == ToLower(pattern) IN
    IF p = d THEN TRUE
    ELSE IF IsWildcard(p) /\ d = Tail(p) THEN FALSE
    ELSE IF IsWildcard(p) /\ HasDotSuffix(d, Tail(p)) THEN TRUE
    ELSE HasGlob(p) /\ Compiles(p) /\ GlobMatch(p, d)

\* DomainMatcher.matchPattern; a glob pattern of m.patterns is in regexCache
\* when it compiled
matchPattern(pattern, d) ==
    IF pattern = d THEN TRUE
    ELSE IF IsWildcard(pattern) /\ d = Tail(pattern) THEN FALSE
    ELSE IF IsWildcard(pattern)
            /\ (HasDotSuffix(d, Tail(pattern)) \/ SubDomainLoop(pattern, d))
         THEN TRUE
    ELSE HasGlob(pattern) /\ Compiles(pattern) /\ GlobMatch(pattern, d)

\* DomainMatcher.Match on a matcher holding the pattern list pats
DomainMatch(pats, domain) ==
    LET d == normalizeDomain(domain) IN
    \/ \E i \in DOMAIN pats : ~HasGlob(pats[i]) /\ pats[i] = d
    \/ \E i \in DOMAIN pats : matchPattern(pats[i], d)

\* DomainMatcher.AddPattern: append unless already present
AddPattern(pats, p) ==
    IF \E i \in DOMAIN pats : pats[i] = p THEN pats ELSE Append(pats, p)

\* --------------------------------------------------------------- CIDR model
Pow2(n) == 2 ^ n

\* net.IPNet.Contains
NetContains(pfx, ip) ==
    ip \div Pow2(AddrBits - pfx.bits) = pfx.base \div Pow2(AddrBits - pfx.bits)

\* CIDRMatcher.Contains on a matcher holding the prefix list cidrs
CidrContains(cidrs, ip) == \E i \in DOMAIN cidrs : NetContains(cidrs[i], ip)

\* net.ParseCIDR succeeds on a prefix string
ParsesCIDR(s) == s.valid

\* the *net.IPNet of a prefix string: the base is masked
ParseCIDR(s) ==
    [base |-> (s.base \div Pow2(AddrBits - s.bits)) * Pow2(AddrBits - s.bits),
     bits |-> s.bits]

\* an AddCIDR that appends without looking for an equal network
AddCIDRAlways(cidrs, s) ==
    IF ~ParsesCIDR(s) THEN cidrs ELSE Append(cidrs, ParseCIDR(s))

\* CIDRMatcher.AddCIDR: parse, append unless an equal network is present
AddCIDR(cidrs, s) ==
    IF ~ParsesCIDR(s) THEN cidrs
    ELSE IF \E i \in DOMAIN cidrs : cidrs[i] = ParseCIDR(s) THEN cidrs
    ELSE Append(cidrs, ParseCIDR(s))

\* CIDRMatcher.AddCIDRs: stops at the first prefix that does not parse
RECURSIVE AddCIDRs(_, _)
AddCIDRs(cidrs, strs) ==
    IF strs = <<>> THEN cidrs
    ELSE IF ~ParsesCIDR(Head(strs)) THEN cidrs
    ELSE AddCIDRs(AddCIDR(cidrs, Head(strs)), Tail(strs))

\* CIDRMatcher.RemoveCIDR: parse, delete the first equal network
RemoveCIDR(cidrs, s) ==
    IF ~ParsesCIDR(s) \/ ~\E i \in DOMAIN cidrs : cidrs[i] = ParseCIDR(s) THEN cidrs
    ELSE LET i == CHOOSE k \in DOMAIN cidrs :
                    /\ cidrs[k] = ParseCIDR(s)
                    /\ \A j \in 1..(k - 1) : cidrs[j] # ParseCIDR(s)
         IN SubSeq(cidrs, 1, i - 1) \o SubSeq(cidrs, i + 1, Len(cidrs))

\* ------------------------------------------------------------ DNS messages
\* A resource record: rrtype "A", "AAAA" or "CNAME"; target is the CNAME
\* target, ip the address of an A or AAAA record.
RR(t, n, tg, a, l) == [rrtype |-> t, name |-> n, target |-> tg, ip |-> a, ttl |-> l]

NoName == <<"">>

\* dns.Msg: transaction id, rcode, question section, answer section
Msg(i, rc, q, a) == [id |-> i, rcode |-> rc, question |-> q, answer |-> a]

\* dns.Msg.SetReply: id and the first question of the request, no answer
SetReply(req) ==
    Msg(req.id, RcodeSuccess,
        IF Len(req.question) > 0 THEN <<req.question[1]>> ELSE <<>>, <<>>)

\* dns.HandleFailed: the SERVFAIL reply to a request
ServFail(req) == [SetReply(req) EXCEPT !.rcode = RcodeServerFailure]

\* Server.noAorAAAA
noAorAAAA(resp) ==
    \A i \in DOMAIN resp.answer : resp.answer[i].rrtype \notin {"A", "AAAA"}

IsCNAME(rr) == rr.rrtype = "CNAME"
IsA(rr) == rr.rrtype = "A"

\* the ip of every record of a sequence
RECURSIVE IPsOf(_)
IPsOf(rrs) == IF rrs = <<>> THEN <<>> ELSE <<Head(rrs).ip>> \o IPsOf(Tail(rrs))

\* a CDN-presence check that skips the owner test: every A record with a
\* CDN address counts
checkCNAMEForCDNIPAnyOwner(pats, cidrs, resp) ==
    LET Hit(rr) == IsA(rr) /\ CidrContains(cidrs, rr.ip)
    IN IPsOf(SelectSeq(resp.answer, Hit))

\* Server.checkCNAMEForCDNIP: the CDN addresses of A records owned by a CNAME
\* target or by a name the domain matcher matches (found iff non-empty)
checkCNAMEForCDNIP(pats, cidrs, resp) ==
    LET cnameTargets == {normalizeDomain(resp.answer[i].target) :
                            i \in {j \in DOMAIN resp.answer : IsCNAME(resp.answer[j])}}
        Counts(rr) == /\ IsA(rr)
                      /\ \/ normalizeDomain(rr.name) \in cnameTargets
                         \/ DomainMatch(pats, normalizeDomain(rr.name))
                      /\ CidrContains(cidrs, rr.ip)
    IN IPsOf(SelectSeq(resp.answer, Counts))

\* the map source -> target of a response's CNAME records; a later record
\* of the same owner overwrites an earlier one
RECURSIVE CnameMap(_)
CnameMap(rrs) ==
    IF rrs = <<>> THEN <<>>
    ELSE LET rest == CnameMap(SubSeq(rrs, 1, Len(rrs) - 1))
             last == rrs[Len(rrs)]
             src == normalizeDomain(last.name)
         IN IF ~IsCNAME(last) THEN rest
            ELSE IF \E i \in DOMAIN rest : rest[i][1] = src
                 THEN [i \in DOMAIN rest |->
                         IF rest[i][1] = src
                         THEN <<src, normalizeDomain(last.target)>> ELSE rest[i]]
                 ELSE Append(rest, <<src, normalizeDomain(last.target)>>)

MapKeys(m) == {m[i][1] : i \in DOMAIN m}
MapGet(m, k) == (CHOOSE i \in DOMAIN m : m[i][1] = k)
MapVal(m, k) == m[MapGet(m, k)][2]

\* the names visited from start by following links for at most fuel steps
RECURSIVE Walk(_, _, _)
Walk(m, current, fuel) ==
    IF fuel = 0 \/ current \notin MapKeys(m) THEN {current}
    ELSE {current} \cup Walk(m, MapVal(m, current), fuel - 1)

\* following links from start never reaches a name without a link
RECURSIVE Cycles(_, _, _)
Cycles(m, current, fuel) ==
    IF current \notin MapKeys(m) THEN FALSE
    ELSE IF fuel = 0 THEN TRUE
    ELSE Cycles(m, MapVal(m, current), fuel - 1)

\* Server.filterNonCDNIPs never leaves its "for { ... }" loop: a matched
\* CNAME owner whose links form a cycle
filterDiverges(pats, resp) ==
    LET cnameMap == CnameMap(resp.answer) IN
    \E d \in MapKeys(cnameMap) :
        DomainMatch(pats, d) /\ Cycles(cnameMap, d, Len(cnameMap))

\* a filter that keeps the A records of the matched names whatever their
\* address
filterNonCDNIPsAnyAddress(pats, cidrs, resp) ==
    LET cnameMap == CnameMap(resp.answer)
        matchedDomains == UNION {Walk(cnameMap, d, Len(cnameMap)) :
                                   d \in {k \in MapKeys(cnameMap) : DomainMatch(pats, k)}}
        Keep(rr) == /\ IsA(rr)
                    /\ \/ normalizeDomain(rr.name) \in matchedDomains
                       \/ DomainMatch(pats, normalizeDomain(rr.name))
    IN [resp EXCEPT !.answer = SelectSeq(resp.answer, IsCNAME)
                                 \o SelectSeq(resp.answer, Keep)]

\* Server.filterNonCDNIPs (when it returns): every CNAME, then the A records
\* with a CDN address owned by a matched name or a name reached from one
filterNonCDNIPs(pats, cidrs, resp) ==
    LET cnameMap == CnameMap(resp.answer)
        matchedDomains == UNION {Walk(cnameMap, d, Len(cnameMap)) :
                                   d \in {k \in MapKeys(cnameMap) : DomainMatch(pats, k)}}
        Keep(rr) == /\ IsA(rr)
                    /\ \/ normalizeDomain(rr.name) \in matchedDomains
                       \/ DomainMatch(pats, normalizeDomain(rr.name))
                    /\ CidrContains(cidrs, rr.ip)
    IN [resp EXCEPT !.answer = SelectSeq(resp.answer, IsCNAME)
                                 \o SelectSeq(resp.answer, Keep)]

\* Config.GetDomainStrategy: the strategy of the first matching rule
RECURSIVE GetDomainStrategy(_, _)
GetDomainStrategy(rules, domain) ==
    IF rules = <<>> THEN StrategyNone
    ELSE IF ConfigMatchDomain(Head(rules).pattern, domain) THEN Head(rules).strategy
    ELSE GetDomainStrategy(Tail(rules), domain)

\* the first rule whose pattern util.MatchDomain matches, as a sequence of
\* zero or one rule
RECURSIVE FirstRule(_, _)
FirstRule(rules, d) ==
    IF rules = <<>> THEN <<>>
    ELSE IF UtilMatchDomain(Head(rules).pattern, d) THEN <<Head(rules)>>
    ELSE FirstRule(Tail(rules), d)

\* a return_cdn_a that always uses the default TTL
returnCDNARecordsDefaultTTL(cfg, req, cdnIPs) ==
    LET domain == req.question[1].name
    IN IF req.question[1].qtype # "A" THEN SetReply(req)
       ELSE [SetReply(req) EXCEPT
               !.answer = [i \in DOMAIN cdnIPs |->
                             RR("A", domain, NoName, cdnIPs[i], DefaultTTL)]]

\* a return_cdn_a that does not look at the question type
returnCDNARecordsAnyType(cfg, req, cdnIPs) ==
    LET domain == req.question[1].name
        first == FirstRule(cfg.domains, TrimDot(domain))
        ttl == IF first # <<>> /\ first[1].ttl > 0 THEN first[1].ttl ELSE DefaultTTL
    IN [SetReply(req) EXCEPT
          !.answer = [i \in DOMAIN cdnIPs |->
                        RR("A", domain, NoName, cdnIPs[i], ttl)]]

\* Server.returnCDNARecords
returnCDNARecords(cfg, req, cdnIPs) ==
    LET domain == req.question[1].name
        first == FirstRule(cfg.domains, TrimDot(domain))
        ttl == IF first # <<>> /\ first[1].ttl > 0 THEN first[1].ttl ELSE DefaultTTL
    IN IF req.question[1].qtype # "A" THEN SetReply(req)
       ELSE [SetReply(req) EXCEPT
               !.answer = [i \in DOMAIN cdnIPs |->
                             RR("A", domain, NoName, cdnIPs[i], ttl)]]

\* CNAMEChain.BuildFromResponse: the names that own or are the target of a CNAME
ChainDomains(resp) ==
    UNION {{normalizeDomain(resp.answer[i].name), normalizeDomain(resp.answer[i].target)} :
             i \in {j \in DOMAIN resp.answer : IsCNAME(resp.answer[j])}}

\* Server.stripCNAMEsForDomain never leaves its loop: the links from the
\* domain run into a cycle of two or more names
RECURSIVE stripDiverges(_, _, _)
stripDiverges(m, current, fuel) ==
    IF current \notin MapKeys(m) \/ MapVal(m, current) = current THEN FALSE
    ELSE IF fuel = 0 THEN TRUE
    ELSE stripDiverges(m, MapVal(m, current), fuel - 1)

\* the strip set: the names visited from the domain, stopping at a missing
\* link or a self-loop
RECURSIVE StripSet(_, _, _)
StripSet(m, current, fuel) ==
    IF fuel = 0 \/ current \notin MapKeys(m) \/ MapVal(m, current) = current
    THEN {current}
    ELSE {current} \cup StripSet(m, MapVal(m, current), fuel - 1)

\* an emission that drops every CNAME record
withoutAnyCNAME(resp, toStrip) ==
    [resp EXCEPT !.answer = SelectSeq(resp.answer, LAMBDA rr : ~IsCNAME(rr))]

\* Server.stripCNAMEsForDomain, the emission: a copy of the response whose
\* answer section skips the CNAME records with an owner in toStrip
withoutCNAMEs(resp, toStrip) ==
    LET Keep(rr) == ~(IsCNAME(rr) /\ normalizeDomain(rr.name) \in toStrip)
    IN [resp EXCEPT !.answer = SelectSeq(resp.answer, Keep)]

\* Server.stripCNAMEsForDomain (when it returns)
stripCNAMEsForDomain(resp, domain) ==
    LET cnameMap == CnameMap(resp.answer)
        toStrip == StripSet(cnameMap, normalizeDomain(domain), Len(cnameMap))
    IN withoutCNAMEs(resp, toStrip)

\* a strip decision that ignores the rule's strip_cname_when_no_record
shouldStripCNAMEAlways(cfg, domain) ==
    FirstRule(cfg.domains, TrimDot(ToLower(domain))) # <<>>

\* Server.shouldStripCNAMEWhenNoRecord
shouldStripCNAMEWhenNoRecord(cfg, domain) ==
    LET first == FirstRule(cfg.domains, TrimDot(ToLower(domain)))
    IN first # <<>> /\ first[1].strip

\* a flag lookup that ignores the per-rule override
shouldNoRecordNoFallbackGlobalOnly(cfg, domain) == cfg.noRecordNoFallback

\* Server.shouldNoRecordNoFallback: the override of the first matching rule
\* when it has one, the global flag otherwise
shouldNoRecordNoFallback(cfg, domain) ==
    LET first == FirstRule(cfg.domains, TrimDot(ToLower(domain)))
    IN IF first # <<>> /\ first[1].nrnf # "unset"
       THEN first[1].nrnf = "true"
       ELSE cfg.noRecordNoFallback

\* the chain names the matcher matches and whose rule has one of the strategies
ChainCandidates(cfg, pats, resp, strategies) ==
    {d \in ChainDomains(resp) :
        DomainMatch(pats, d) /\ GetDomainStrategy(cfg.domains, d) \in strategies}

\* Server.effectiveStrategyForNoRecord: the possible <<strategy, domain>>
\* results; the chain names are visited in the order of a Go map iteration
effectiveStrategyForNoRecord(cfg, pats, req, resp) ==
    LET domain == normalizeDomain(req.question[1].name)
        strategy == GetDomainStrategy(cfg.domains, domain)
        found == ChainCandidates(cfg, pats, resp, {StrategyReturnCDNA})
    IN IF Len(req.question) = 0 THEN {<<StrategyNone, NoName>>}
       ELSE IF strategy = StrategyNone /\ found # {}
            THEN {<<StrategyReturnCDNA, d>> : d \in found}
       ELSE {<<strategy, domain>>}

\* an outcome of a rewrite: a message, or the call never returns
Returns(m) == [diverges |-> FALSE, msg |-> m]
Diverges(m) == [diverges |-> TRUE, msg |-> m]

FilterOutcome(pats, cidrs, resp) ==
    IF filterDiverges(pats, resp) THEN Diverges(resp)
    ELSE Returns(filterNonCDNIPs(pats, cidrs, resp))

\* a selection that lets a rule of a chain name override the rule of the
\* question name
SelectedStrategiesChainFirst(cfg, pats, req, resp) ==
    LET strategy == GetDomainStrategy(cfg.domains, normalizeDomain(req.question[1].name))
        found == ChainCandidates(cfg, pats, resp,
                                 {StrategyFilterNonCDN, StrategyReturnCDNA})
    IN IF found # {} THEN {GetDomainStrategy(cfg.domains, d) : d \in found}
       ELSE IF strategy # StrategyNone THEN {strategy}
       ELSE {"default"}

\* the final strategies Server.processResponse may select: the rule of the
\* question name, else that of a chain name (the first one a Go map iteration
\* yields), else "default" (no strategy anywhere: filter)
SelectedStrategies(cfg, pats, req, resp) ==
    LET strategy == GetDomainStrategy(cfg.domains, normalizeDomain(req.question[1].name))
        found == ChainCandidates(cfg, pats, resp,
                                 {StrategyFilterNonCDN, StrategyReturnCDNA})
    IN IF strategy # StrategyNone THEN {strategy}
       ELSE IF found = {} THEN {"default"}
       ELSE {GetDomainStrategy(cfg.domains, d) : d \in found}

\* a processResponse that returns the response as it is when no strategy is
\* selected
processResponseNoneUnchanged(cfg, pats, cidrs, req, resp, cdnIPs) ==
    IF Len(req.question) = 0 \/ Len(cdnIPs) = 0 THEN {Returns(resp)}
    ELSE {IF st = StrategyFilterNonCDN
             THEN FilterOutcome(pats, cidrs, resp)
          ELSE IF st = StrategyReturnCDNA
             THEN Returns(returnCDNARecords(cfg, req, cdnIPs))
          ELSE Returns(resp) : st \in SelectedStrategies(cfg, pats, req, resp)}

\* Server.processResponse: the possible outcomes
processResponse(cfg, pats, cidrs, req, resp, cdnIPs) ==
    IF Len(req.question) = 0 \/ Len(cdnIPs) = 0 THEN {Returns(resp)}
    ELSE {IF st \in {"default", StrategyFilterNonCDN}
             THEN FilterOutcome(pats, cidrs, resp)
          ELSE IF st = StrategyReturnCDNA
             THEN Returns(returnCDNARecords(cfg, req, cdnIPs))
          ELSE Returns(resp) : st \in SelectedStrategies(cfg, pats, req, resp)}

\* ------------------------------------------------------------------- cache
\* the cache key: Question.String() of the first question (name as sent)
CacheKey(req) == req.question[1]

\* a lookup that returns the stored message as stored, id included
checkCacheStoredId(entries, t, r) ==
    IF Len(r.question) = 0 THEN <<>>
    ELSE IF r.question[1] \notin DOMAIN entries THEN <<>>
    ELSE IF t > entries[r.question[1]].expireAt THEN <<>>
    ELSE <<entries[r.question[1]].msg>>

\* a lookup that serves an entry whatever its expiry
checkCacheIgnoresExpiry(entries, t, r) ==
    IF Len(r.question) = 0 THEN <<>>
    ELSE IF r.question[1] \notin DOMAIN entries THEN <<>>
    ELSE <<[entries[r.question[1]].msg EXCEPT !.id = r.id]>>

\* Server.checkCache: zero or one message (a miss is <<>>)
checkCache(entries, t, r) ==
    IF Len(r.question) = 0 THEN <<>>
    ELSE IF CacheKey(r) \notin DOMAIN entries THEN <<>>
    ELSE IF t > entries[CacheKey(r)].expireAt THEN <<>>
    ELSE <<[entries[CacheKey(r)].msg EXCEPT !.id = r.id]>>

\* a store that inserts first and then deletes any one entry of an over-full
\* cache, the new one included
updateCacheEvictAfter(entries, maxSize, ttl, t, req, resp) ==
    IF Len(req.question) = 0 THEN {entries}
    ELSE LET key == req.question[1]
             entry == [msg |-> resp, expireAt |-> t + ttl]
             put == [k \in DOMAIN entries \cup {key} |->
                       IF k = key THEN entry ELSE entries[k]]
         IN IF Cardinality(DOMAIN put) > maxSize
            THEN {[k \in DOMAIN put \ {v} |-> put[k]] : v \in DOMAIN put}
            ELSE {put}

\* Server.updateCache: the possible entry maps after the store; when the
\* cache is full the entry a Go map iteration yields first is deleted
updateCache(entries, maxSize, ttl, t, req, resp) ==
    IF Len(req.question) = 0 THEN {entries}
    ELSE LET key == CacheKey(req)
             entry == [msg |-> resp, expireAt |-> t + ttl]
             Put(e) == [k \in DOMAIN e \cup {key} |-> IF k = key THEN entry ELSE e[k]]
             Without(v) == [k \in DOMAIN entries \ {v} |-> entries[k]]
         IN IF Cardinality(DOMAIN entries) >= maxSize /\ DOMAIN entries # {}
            THEN {Put(Without(v)) : v \in DOMAIN entries}
            ELSE {Put(entries)}

\* ----------------------------------------------------------- configuration
\* DomainRule; nrnf is the *bool NoRecordNoFallback: "unset", "true", "false"
Rule(p, s, t, st, n) ==
    [pattern |-> p, strategy |-> s, ttl |-> t, strip |-> st, nrnf |-> n]

\* strings.TrimSpace on an endpoint (the model's only blank string is " ")
TrimSpace(s) == IF s = " " THEN "" ELSE s

\* Config.parseCIDRs succeeds
parseCIDRsOk(cfg) == \A i \in DOMAIN cfg.cdnIPs : ParsesCIDR(cfg.cdnIPs[i])

\* Config.Validate succeeds
Validate(cfg) ==
    /\ TrimSpace(cfg.upstream) # ""
    /\ cfg.workers > 0
    /\ Len(cfg.cdnIPs) > 0

\* config.LoadConfig(path) succeeds on a file: it parses as YAML, its
\* prefixes parse and Validate accepts it
LoadConfigFileOk(file) ==
    /\ file.parses
    /\ parseCIDRsOk(file.cfg)
    /\ Validate(file.cfg)

\* ConfigManager.validateConfig succeeds
validateConfig(cfg) ==
    /\ cfg.upstream # ""
    /\ cfg.workers > 0
    /\ Len(cfg.cdnIPs) > 0
    /\ parseCIDRsOk(cfg)

\* a load that publishes the parsed file before validating it
LoadConfigPublishFirst(file, current) ==
    IF LoadConfigFileOk(file) /\ validateConfig(file.cfg)
    THEN [err |-> FALSE, config |-> file.cfg]
    ELSE [err |-> TRUE, config |-> IF file.parses THEN file.cfg ELSE current]

\* ConfigManager.LoadConfig on a file: the error flag and the value of
\* m.config after the call
LoadConfig(file, current) ==
    IF LoadConfigFileOk(file) /\ validateConfig(file.cfg)
    THEN [err |-> FALSE, config |-> file.cfg]
    ELSE [err |-> TRUE, config |-> current]

\* the pattern list DomainMatcher holds after AddPattern of each rule
RECURSIVE PatternsOf(_, _)
PatternsOf(pats, rules) ==
    IF rules = <<>> THEN pats
    ELSE PatternsOf(AddPattern(pats, Head(rules).pattern), Tail(rules))

\* ------------------------------------------------------------- model inputs
QA == <<"a", "cdn", "com", "">>
QUpper == <<"A", "cdn", "com", "">>
QX == <<"x", "net", "">>
Edge == <<"e", "net", "">>
WildCdn == <<"*", "cdn", "com">>
ExactEdge == <<"e", "net">>
ExactX == <<"x", "net">>

\* a prefix string "b/n", and one that does not parse
Pfx(b, n) == [base |-> b, bits |-> n, valid |-> TRUE]
BadPfx == [base |-> 0, bits |-> 0, valid |-> FALSE]

Question(n, t) == [name |-> n, qtype |-> t, qclass |-> "IN"]
Request(i, qs) == [id |-> i, question |-> qs]

CfgA ==
    [upstream |-> "P", fallback |-> "F", noRecordNoFallback |-> FALSE,
     timeout |-> 5, listen |-> ":53", workers |-> 1, cacheSize |-> 2,
     cacheTTL |-> 1, cdnIPs |-> <<Pfx(0, 1)>>,
     domains |-> <<Rule(WildCdn, StrategyFilterNonCDN, 0, FALSE, "unset")>>]

CfgB ==
    [upstream |-> "Q", fallback |-> "", noRecordNoFallback |-> TRUE,
     timeout |-> 3, listen |-> ":54", workers |-> 2, cacheSize |-> 1,
     cacheTTL |-> 2, cdnIPs |-> <<Pfx(2, 2), Pfx(1, 2)>>,
     domains |-> <<Rule(ExactEdge, StrategyReturnCDNA, 30, TRUE, "unset"),
                   Rule(WildCdn, StrategyNone, 0, FALSE, "false")>>]

\* the configurations the running system is started with and reloaded to
Configs == {CfgA, CfgB}

File(c) == [parses |-> TRUE, cfg |-> c]

\* what the configuration file may hold when it is (re)read
Files ==
    {File(c) : c \in Configs}
    \cup {[parses |-> FALSE, cfg |-> CfgA],
          File([CfgB EXCEPT !.workers = 0]),
          File([CfgB EXCEPT !.cdnIPs = <<Pfx(2, 2), BadPfx>>]),
          File([CfgB EXCEPT !.upstream = ""])}

\* the requests clients send
Requests ==
    {Request(1, <<Question(QA, "A")>>), Request(2, <<Question(QA, "A")>>),
     Request(1, <<Question(QX, "A")>>), Request(1, <<>>)}

\* the answer sections an upstream may return for a request
Answers(req) ==
    IF Len(req.question) = 0 THEN {<<>>}
    ELSE LET n == req.question[1].name IN
         {<<RR("A", n, NoName, 0, 300), RR("A", n, NoName, 3, 300)>>,
          <<RR("CNAME", n, Edge, 0, 300), RR("A", Edge, NoName, 0, 300)>>,
          <<RR("CNAME", n, Edge, 0, 300)>>}

\* the reply of an upstream to a request: the library returns only a reply
\* whose id is the id of the query
Reply(req, ans) == Msg(req.id, RcodeSuccess, req.question, ans)

\* -------------------------------------------------------------------- state
VARIABLES
    mConfig,      \* ConfigManager.config
    sConfig,      \* Server.config
    upstream,     \* Server.upstream
    timeout,      \* Server.timeout and Server.client.Timeout
    cidrs,        \* Server.cidrMatcher.cidrs
    patterns,     \* Server.domainMatcher.patterns
    entries,      \* Server.cache.entries
    maxSize,      \* Server.cache.maxSize
    ttl,          \* Server.cache.ttl
    workerPool,   \* number of tokens in the channel Server.workerPool
    poolCap,      \* capacity of the channel Server.workerPool
    h,            \* the ServeDNS goroutines: position and locals of each
    rl,           \* the watcher goroutine: position in LoadConfig/OnConfigChange
    now,          \* time.Now()
    crashed,      \* the process died of an unrecovered panic
    fn,           \* SpecFilter: the call under test, its arguments and result
    lsn           \* the dns.Server instances, Server.server and the goroutines
                  \* started to run ListenAndServe

vars == <<mConfig, sConfig, upstream, timeout, cidrs, patterns, entries, maxSize,
          ttl, workerPool, poolCap, h, rl, now, crashed, fn, lsn>>

\* what no step of ServeDNS, of the loader or of the matcher updates changes
frame == <<poolCap, fn, lsn>>

serverVars == <<sConfig, upstream, timeout, cidrs, patterns, maxSize, ttl>>

Handlers == 1..NumHandlers

NoMsg == Msg(0, RcodeSuccess, <<>>, <<>>)
NoObs == [cfg |-> {}, pats |-> {}, cidrs |-> {}, ups |-> {}]

\* a goroutine that is not running ServeDNS
IdleHandler ==
    [pc |-> "idle", req |-> Request(0, <<>>), initialResp |-> NoMsg,
     finalResp |-> NoMsg, cdnIPs |-> <<>>, written |-> <<>>, toFallback |-> <<>>,
     path |-> "", permit |-> FALSE, full |-> FALSE, obs |-> NoObs]

IdleReload == [pc |-> "idle", old |-> CfgA, new |-> CfgA, i |-> 0, loads |-> 0,
               err |-> FALSE, calls |-> 0]

NoCall == [op |-> "none"]

EmptyCache == [k \in {} |-> [msg |-> NoMsg, expireAt |-> 0]]

\* Server.Start: StartWatching (the configuration is loaded already, so a
\* watcher is made, m.watchingStarted is set and the goroutine running
\* runWatcherLoop is started; seen is the number of loads the loop had made
\* when it last entered its select) and startDNSServerProcess (a dns.Server
\* for the endpoint is made, s.server points at it, and a goroutine is
\* started that will call s.server.ListenAndServe())
StartedListener(cfg) ==
    [servers |-> <<[addr |-> cfg.listen, state |-> "new"]>>,
     cur |-> 1,
     g |-> <<[pc |-> "spawned", srv |-> 0]>>,
     watching |-> TRUE, loop |-> "running", seen |-> 0, racy |-> FALSE,
     stopped |-> FALSE]

\* NewServer on a valid configuration file, followed by Server.Start
NewServer(cfg) ==
    /\ mConfig = cfg
    /\ sConfig = cfg
    /\ upstream = cfg.upstream
    /\ timeout = cfg.timeout
    /\ cidrs = AddCIDRs(<<>>, cfg.cdnIPs)
    /\ patterns = PatternsOf(<<>>, cfg.domains)
    /\ entries = EmptyCache
    /\ maxSize = cfg.cacheSize
    /\ ttl = cfg.cacheTTL
    /\ workerPool = cfg.workers
    /\ poolCap = cfg.workers
    /\ h = [i \in Handlers |-> IdleHandler]
    /\ rl = IdleReload
    /\ now = 0
    /\ crashed = FALSE
    /\ lsn = StartedListener(cfg)

Init == fn = NoCall /\ \E cfg \in Configs : NewServer(cfg)

\* ------------------------------------------------------ Server.ServeDNS
\* the matcher reads of Server.checkCNAMEForCDNIP and Server.filterNonCDNIPs:
\* the domain matcher is asked as soon as there is a CNAME or an A record, the
\* prefix matcher when an A record passed the owner test
ReadsPatterns(resp) ==
    \E j \in DOMAIN resp.answer : IsCNAME(resp.answer[j]) \/ IsA(resp.answer[j])

ReadsCidrs(pats, owners, resp) ==
    \E j \in DOMAIN resp.answer :
        /\ IsA(resp.answer[j])
        /\ \/ normalizeDomain(resp.answer[j].name) \in owners
           \/ DomainMatch(pats, normalizeDomain(resp.answer[j].name))

CnameTargets(resp) ==
    {normalizeDomain(resp.answer[j].target) :
        j \in {k \in DOMAIN resp.answer : IsCNAME(resp.answer[k])}}

\* what a handler has consulted so far, extended by the reads of one step
Observe(o, readCfg, readPats, readCidrs, readUps) ==
    [cfg |-> IF readCfg THEN o.cfg \cup {sConfig} ELSE o.cfg,
     pats |-> IF readPats THEN o.pats \cup {patterns} ELSE o.pats,
     cidrs |-> IF readCidrs THEN o.cidrs \cup {cidrs} ELSE o.cidrs,
     ups |-> IF readUps THEN o.ups \cup {upstream} ELSE o.ups]

\* the exits of ServeDNS that come after an updateCache
StorePaths == {"norec", "norec_strip", "nofallback", "fallback", "processed"}

\* updateCache finds the cache at capacity
CacheFull == Cardinality(DOMAIN entries) >= maxSize

\* an exit that keeps the token
ExitKeepsToken(i, m, how, o, fb) ==
    /\ h' = [h EXCEPT ![i].pc = "done", ![i].written = Append(@, m),
                      ![i].path = how, ![i].permit = FALSE, ![i].obs = o,
                      ![i].toFallback = fb]
    /\ UNCHANGED workerPool

\* return from ServeDNS after w.WriteMsg(m): the deferred send puts the
\* token back
Exit(i, m, how, o, fb) ==
    /\ h' = [h EXCEPT ![i].pc = "done", ![i].written = Append(@, m),
                      ![i].path = how, ![i].permit = FALSE, ![i].obs = o,
                      ![i].toFallback = fb,
                      ![i].full = how \in StorePaths /\ CacheFull]
    /\ workerPool' = workerPool + 1

\* the listener hands a request to a new goroutine running ServeDNS
Receive(i, reqs) ==
    /\ ~crashed
    /\ h[i].pc = "idle"
    /\ \E r \in reqs :
         h' = [h EXCEPT ![i] = [IdleHandler EXCEPT !.pc = "acquire", !.req = r]]
    /\ UNCHANGED <<mConfig, serverVars, entries, workerPool, frame, rl, now, crashed>>

\* <-s.workerPool
Acquire(i) ==
    /\ ~crashed
    /\ h[i].pc = "acquire"
    /\ workerPool > 0
    /\ workerPool' = workerPool - 1
    /\ h' = [h EXCEPT ![i].pc = "cache", ![i].permit = TRUE]
    /\ UNCHANGED <<mConfig, serverVars, entries, frame, rl, now, crashed>>

\* step 1: checkCache; a hit is written at once; after a miss the log line
\* reads r.Question[0], which panics on an empty question section
CheckCache(i) ==
    /\ ~crashed
    /\ h[i].pc = "cache"
    /\ LET c == checkCache(entries, now, h[i].req) IN
       IF c # <<>>
       THEN Exit(i, c[1], "hit", h[i].obs, <<>>) /\ UNCHANGED crashed
       ELSE IF Len(h[i].req.question) = 0
       THEN /\ h' = [h EXCEPT ![i].pc = "panicked", ![i].permit = FALSE,
                              ![i].path = "panic"]
            /\ workerPool' = workerPool + 1
            /\ crashed' = TRUE
       ELSE /\ h' = [h EXCEPT ![i].pc = "primary"]
            /\ UNCHANGED <<workerPool, crashed>>
    /\ UNCHANGED <<mConfig, serverVars, entries, frame, rl, now>>

\* an exchange whose failure is answered with SERVFAIL and cached
ExchangePrimaryCachesFailure(i, answers) ==
    /\ ~crashed
    /\ h[i].pc = "primary"
    /\ LET o == Observe(h[i].obs, FALSE, FALSE, FALSE, TRUE) IN
       \/ /\ Exit(i, ServFail(h[i].req), "primary_error", o, <<>>)
          /\ entries' \in updateCache(entries, maxSize, ttl, now, h[i].req,
                                      ServFail(h[i].req))
       \/ /\ \E a \in answers :
               h' = [h EXCEPT ![i].pc = "norec", ![i].obs = o,
                              ![i].initialResp = Reply(h[i].req, a)]
          /\ UNCHANGED <<workerPool, entries>>
    /\ UNCHANGED <<mConfig, serverVars, frame, rl, now, crashed>>

\* step 2: s.client.Exchange(r, s.upstream): an error, or a reply
ExchangePrimary(i, answers) ==
    /\ ~crashed
    /\ h[i].pc = "primary"
    /\ LET o == Observe(h[i].obs, FALSE, FALSE, FALSE, TRUE) IN
       \/ Exit(i, ServFail(h[i].req), "primary_error", o, <<>>)
       \/ /\ \E a \in answers :
               h' = [h EXCEPT ![i].pc = "norec", ![i].obs = o,
                              ![i].initialResp = Reply(h[i].req, a)]
          /\ UNCHANGED workerPool
    /\ UNCHANGED <<mConfig, serverVars, entries, frame, rl, now, crashed>>

\* step 2.1: no A/AAAA and the no-record-no-fallback flag in effect: reply
\* with the primary response, CNAMEs stripped when the rule asks for it
NoRecord(i) ==
    /\ ~crashed
    /\ h[i].pc = "norec"
    /\ LET req == h[i].req
           resp == h[i].initialResp
           qname == req.question[1].name
           chainRead == /\ GetDomainStrategy(sConfig.domains, normalizeDomain(qname))
                              = StrategyNone
                        /\ ChainDomains(resp) # {}
       IN
       IF noAorAAAA(resp) /\ shouldNoRecordNoFallback(sConfig, qname)
       THEN \E e \in effectiveStrategyForNoRecord(sConfig, patterns, req, resp) :
              LET o == Observe(h[i].obs, TRUE, chainRead, FALSE, FALSE) IN
              IF e[1] = StrategyReturnCDNA /\ shouldStripCNAMEWhenNoRecord(sConfig, e[2])
              THEN IF stripDiverges(CnameMap(resp.answer), normalizeDomain(e[2]),
                                    Len(CnameMap(resp.answer)))
                   THEN /\ h' = [h EXCEPT ![i].pc = "hung", ![i].obs = o]
                        /\ UNCHANGED <<entries, workerPool>>
                   ELSE /\ entries' \in updateCache(entries, maxSize, ttl, now, req,
                                                    stripCNAMEsForDomain(resp, e[2]))
                        /\ Exit(i, stripCNAMEsForDomain(resp, e[2]), "norec_strip", o, <<>>)
              ELSE /\ entries' \in updateCache(entries, maxSize, ttl, now, req, resp)
                   /\ Exit(i, resp, "norec", o, <<>>)
       ELSE /\ h' = [h EXCEPT ![i].pc = "cdncheck",
                              ![i].obs = Observe(@, noAorAAAA(resp), FALSE, FALSE, FALSE)]
            /\ UNCHANGED <<entries, workerPool>>
    /\ UNCHANGED <<mConfig, serverVars, frame, rl, now, crashed>>

\* step 3: checkCNAMEForCDNIP on the primary response
CdnCheck(i) ==
    /\ ~crashed
    /\ h[i].pc = "cdncheck"
    /\ LET resp == h[i].initialResp
           found == checkCNAMEForCDNIP(patterns, cidrs, resp)
       IN h' = [h EXCEPT ![i].pc = IF Len(found) = 0 THEN "fallback" ELSE "process",
                         ![i].cdnIPs = found,
                         ![i].obs = Observe(@, FALSE, ReadsPatterns(resp),
                                            ReadsCidrs(patterns, CnameTargets(resp), resp),
                                            FALSE)]
    /\ UNCHANGED <<mConfig, serverVars, entries, workerPool, frame, rl, now, crashed>>

\* step 4: no CDN address found: the fallback upstream when one is
\* configured, the primary response otherwise
Fallback(i, answers) ==
    /\ ~crashed
    /\ h[i].pc = "fallback"
    /\ LET o == Observe(h[i].obs, TRUE, FALSE, FALSE, FALSE) IN
       IF TrimSpace(sConfig.fallback) = ""
       THEN /\ h' = [h EXCEPT ![i].pc = "finish", ![i].obs = o, ![i].path = "nofallback",
                              ![i].finalResp = h[i].initialResp]
            /\ UNCHANGED workerPool
       ELSE \/ Exit(i, ServFail(h[i].req), "fallback_error", o, <<h[i].req>>)
            \/ /\ \E a \in answers :
                    h' = [h EXCEPT ![i].pc = "finish", ![i].obs = o,
                                   ![i].path = "fallback",
                                   ![i].toFallback = <<h[i].req>>,
                                   ![i].finalResp = Reply(h[i].req, a)]
               /\ UNCHANGED workerPool
    /\ UNCHANGED <<mConfig, serverVars, entries, frame, rl, now, crashed>>

\* step 5: a CDN address was found: processResponse on the primary response
Process(i) ==
    /\ ~crashed
    /\ h[i].pc = "process"
    /\ LET req == h[i].req
           resp == h[i].initialResp
           sel == SelectedStrategies(sConfig, patterns, req, resp)
           filters == sel \cap {"default", StrategyFilterNonCDN} # {}
           chainRead == /\ GetDomainStrategy(sConfig.domains,
                                             normalizeDomain(req.question[1].name))
                              = StrategyNone
                        /\ ChainDomains(resp) # {}
           walked == UNION {Walk(CnameMap(resp.answer), d, Len(CnameMap(resp.answer))) :
                              d \in {k \in MapKeys(CnameMap(resp.answer)) :
                                       DomainMatch(patterns, k)}}
           o == Observe(h[i].obs, TRUE,
                        chainRead \/ (filters /\ ReadsPatterns(resp)),
                        filters /\ ~filterDiverges(patterns, resp)
                                /\ ReadsCidrs(patterns, walked, resp),
                        FALSE)
       IN \E out \in processResponse(sConfig, patterns, cidrs, req, resp, h[i].cdnIPs) :
            IF out.diverges
            THEN h' = [h EXCEPT ![i].pc = "hung", ![i].obs = o]
            ELSE h' = [h EXCEPT ![i].pc = "finish", ![i].obs = o,
                                ![i].path = "processed", ![i].finalResp = out.msg]
    /\ UNCHANGED <<mConfig, serverVars, entries, workerPool, frame, rl, now, crashed>>

\* step 6: updateCache, w.WriteMsg, return
Finish(i) ==
    /\ ~crashed
    /\ h[i].pc = "finish"
    /\ entries' \in updateCache(entries, maxSize, ttl, now, h[i].req, h[i].finalResp)
    /\ Exit(i, h[i].finalResp, h[i].path, h[i].obs, h[i].toFallback)
    /\ UNCHANGED <<mConfig, serverVars, frame, rl, now, crashed>>

\* the goroutine that ran ServeDNS ends
Return(i) ==
    /\ ~crashed
    /\ h[i].pc = "done"
    /\ h' = [h EXCEPT ![i] = IdleHandler]
    /\ UNCHANGED <<mConfig, serverVars, entries, workerPool, frame, rl, now, crashed>>

\* the clock advances
Tick ==
    /\ ~crashed
    /\ now < MaxTime
    /\ now' = now + 1
    /\ UNCHANGED <<mConfig, serverVars, entries, workerPool, frame, h, rl, crashed>>

\* ------------------------------------- ConfigManager.LoadConfig (the watcher)
\* a write or create event for the configuration file: LoadConfig reads the
\* file; on an error it returns, otherwise it publishes the configuration and
\* calls notifyListeners, which calls Server.OnConfigChange
LoadConfigStep(files) ==
    /\ ~crashed
    /\ rl.pc = "idle"
    /\ rl.loads < MaxReloads
    /\ \E file \in files :
         LET res == LoadConfig(file, mConfig) IN
         /\ mConfig' = res.config
         /\ rl' = [rl EXCEPT !.pc = IF res.err THEN "idle" ELSE "config",
                             !.old = IF res.err THEN @ ELSE mConfig,
                             !.new = IF res.err THEN @ ELSE res.config,
                             !.loads = @ + 1, !.err = res.err]
    /\ UNCHANGED <<serverVars, entries, workerPool, frame, h, now, crashed>>

\* Server.OnConfigChange: s.config = newConfig
OnConfigChangeConfig ==
    /\ ~crashed
    /\ rl.pc = "config"
    /\ sConfig' = rl.new
    /\ rl' = [rl EXCEPT !.pc = "upstream", !.calls = @ + 1]
    /\ UNCHANGED <<mConfig, upstream, timeout, cidrs, patterns, maxSize, ttl,
                   entries, workerPool, frame, h, now, crashed>>

\* Server.OnConfigChange: client.Timeout, upstream, timeout
OnConfigChangeUpstream ==
    /\ ~crashed
    /\ rl.pc = "upstream"
    /\ upstream' = rl.new.upstream
    /\ timeout' = rl.new.timeout
    /\ rl' = [rl EXCEPT !.pc = "cidrClear"]
    /\ UNCHANGED <<mConfig, sConfig, cidrs, patterns, maxSize, ttl,
                   entries, workerPool, frame, h, now, crashed>>

\* Server.OnConfigChange: s.cidrMatcher.Clear()
OnConfigChangeCidrClear ==
    /\ ~crashed
    /\ rl.pc = "cidrClear"
    /\ cidrs' = <<>>
    /\ rl' = [rl EXCEPT !.pc = "cidrAdd", !.i = 1]
    /\ UNCHANGED <<mConfig, sConfig, upstream, timeout, patterns, maxSize, ttl,
                   entries, workerPool, frame, h, now, crashed>>

\* Server.OnConfigChange: one AddCIDR of s.cidrMatcher.AddCIDRs (each takes
\* the matcher's lock on its own)
OnConfigChangeCidrAdd ==
    /\ ~crashed
    /\ rl.pc = "cidrAdd"
    /\ cidrs' = AddCIDR(cidrs, rl.new.cdnIPs[rl.i])
    /\ rl' = [rl EXCEPT !.pc = IF rl.i = Len(rl.new.cdnIPs) THEN "patClear" ELSE @,
                        !.i = @ + 1]
    /\ UNCHANGED <<mConfig, sConfig, upstream, timeout, patterns, maxSize, ttl,
                   entries, workerPool, frame, h, now, crashed>>

\* an update that leaves the old patterns in the matcher
OnConfigChangePatKeep ==
    /\ ~crashed
    /\ rl.pc = "patClear"
    /\ rl' = [rl EXCEPT !.pc = IF rl.new.domains = <<>> THEN "cache" ELSE "patAdd",
                        !.i = 1]
    /\ UNCHANGED <<mConfig, sConfig, upstream, timeout, cidrs, patterns, maxSize,
                   ttl, entries, workerPool, frame, h, now, crashed>>

\* Server.OnConfigChange: s.domainMatcher.Clear()
OnConfigChangePatClear ==
    /\ ~crashed
    /\ rl.pc = "patClear"
    /\ patterns' = <<>>
    /\ rl' = [rl EXCEPT !.pc = IF rl.new.domains = <<>> THEN "cache" ELSE "patAdd",
                        !.i = 1]
    /\ UNCHANGED <<mConfig, sConfig, upstream, timeout, cidrs, maxSize, ttl,
                   entries, workerPool, frame, h, now, crashed>>

\* Server.OnConfigChange: one s.domainMatcher.AddPattern
OnConfigChangePatAdd ==
    /\ ~crashed
    /\ rl.pc = "patAdd"
    /\ patterns' = AddPattern(patterns, rl.new.domains[rl.i].pattern)
    /\ rl' = [rl EXCEPT !.pc = IF rl.i = Len(rl.new.domains) THEN "cache" ELSE @,
                        !.i = @ + 1]
    /\ UNCHANGED <<mConfig, sConfig, upstream, timeout, cidrs, maxSize, ttl,
                   entries, workerPool, frame, h, now, crashed>>

\* an update of the cache settings that also empties the cache
OnConfigChangeCacheFlush ==
    /\ ~crashed
    /\ rl.pc = "cache"
    /\ maxSize' = rl.new.cacheSize
    /\ ttl' = rl.new.cacheTTL
    /\ entries' = EmptyCache
    /\ rl' = [rl EXCEPT !.pc = IF rl.old.listen # rl.new.listen
                               THEN "listenStop" ELSE "idle",
                        !.i = 0]
    /\ UNCHANGED <<mConfig, sConfig, upstream, timeout, cidrs, patterns,
                   workerPool, frame, h, now, crashed>>

\* Server.OnConfigChange: cache.maxSize and cache.ttl under the cache lock;
\* with the listen endpoint unchanged the listener returns and LoadConfig
\* returns nil
OnConfigChangeCache ==
    /\ ~crashed
    /\ rl.pc = "cache"
    /\ maxSize' = rl.new.cacheSize
    /\ ttl' = rl.new.cacheTTL
    /\ rl' = [rl EXCEPT !.pc = IF rl.old.listen # rl.new.listen
                               THEN "listenStop" ELSE "idle",
                        !.i = 0]
    /\ UNCHANGED <<mConfig, sConfig, upstream, timeout, cidrs, patterns,
                   entries, workerPool, frame, h, now, crashed>>

OnConfigChange ==
    \/ OnConfigChangeConfig
    \/ OnConfigChangeUpstream
    \/ OnConfigChangeCidrClear
    \/ OnConfigChangeCidrAdd
    \/ OnConfigChangePatClear
    \/ OnConfigChangePatAdd
    \/ OnConfigChangeCache

\* dns.Server.Shutdown: a server that is not listening returns the error
\* "server not started" and stays as it is
Shutdown(servers, k) ==
    IF servers[k].state = "listening"
    THEN [servers EXCEPT ![k].state = "closed"]
    ELSE servers

\* Server.OnConfigChange, listenChanged: s.server.Shutdown(), its error only
\* logged, and s.server = nil
OnConfigChangeStop ==
    /\ ~crashed
    /\ rl.pc = "listenStop"
    /\ lsn' = [lsn EXCEPT
                 !.servers = IF lsn.cur = 0 THEN @ ELSE Shutdown(@, lsn.cur),
                 !.cur = 0]
    /\ rl' = [rl EXCEPT !.pc = "listenStart"]
    /\ UNCHANGED <<mConfig, serverVars, entries, workerPool, poolCap, fn, h, now,
                   crashed>>

\* Server.OnConfigChange, listenChanged: startDNSServerProcess makes the
\* dns.Server for s.config.Server.Listen with Handler s and starts its
\* goroutine; the listener returns
OnConfigChangeStart ==
    /\ ~crashed
    /\ rl.pc = "listenStart"
    /\ lsn' = [lsn EXCEPT
                 !.servers = Append(IF lsn.cur = 0 THEN @ ELSE Shutdown(@, lsn.cur),
                                    [addr |-> sConfig.listen, state |-> "new"]),
                 !.cur = Len(lsn.servers) + 1,
                 !.g = Append(@, [pc |-> "spawned", srv |-> 0])]
    /\ rl' = [rl EXCEPT !.pc = "idle"]
    /\ UNCHANGED <<mConfig, serverVars, entries, workerPool, poolCap, fn, h, now,
                   crashed>>

\* a listener goroutine evaluates s.server (no lock is held): nil panics
ListenBind(j) ==
    /\ ~crashed
    /\ j \in DOMAIN lsn.g
    /\ lsn.g[j].pc = "spawned"
    /\ IF lsn.cur = 0
       THEN /\ crashed' = TRUE
            /\ lsn' = [lsn EXCEPT !.g[j].pc = "done"]
       ELSE /\ lsn' = [lsn EXCEPT !.g[j] = [pc |-> "bound", srv |-> lsn.cur]]
            /\ UNCHANGED crashed
    /\ UNCHANGED <<mConfig, serverVars, entries, workerPool, poolCap, fn, h, rl, now>>

\* dns.Server.ListenAndServe on the server the goroutine holds: it binds the
\* endpoint unless that server is listening already ("server already
\* started")
ListenAndServe(j) ==
    /\ ~crashed
    /\ j \in DOMAIN lsn.g
    /\ lsn.g[j].pc = "bound"
    /\ lsn' = [lsn EXCEPT !.g[j].pc = "done",
                          !.servers[lsn.g[j].srv].state = "listening"]
    /\ UNCHANGED <<mConfig, serverVars, entries, workerPool, poolCap, fn, h, rl, now,
                   crashed>>

\* the system: one ServeDNS goroutine at a time, the watcher goroutine
\* reloading the configuration under it, and the clock
Next ==
    \/ Receive(1, Requests)
    \/ Acquire(1)
    \/ CheckCache(1)
    \/ ExchangePrimary(1, Answers(h[1].req))
    \/ NoRecord(1)
    \/ CdnCheck(1)
    \/ Fallback(1, Answers(h[1].req))
    \/ Process(1)
    \/ Finish(1)
    \/ Return(1)
    \/ LoadConfigStep(Files)
    \/ OnConfigChange
    \/ OnConfigChangeStop
    \/ OnConfigChangeStart
    \/ Tick

Spec == Init /\ [][Next]_vars

\* ----------------------------------------------------------------- SpecPool
\* NumHandlers ServeDNS goroutines compete for the worker pool
PoolRequests == {Request(1, <<Question(QA, "A")>>), Request(1, <<>>)}

PoolAnswers(req) ==
    {<<RR("A", QA, NoName, 0, 300), RR("A", QA, NoName, 3, 300)>>,
     <<RR("A", QA, NoName, 3, 300)>>}

NextPool ==
    \E i \in Handlers :
        \/ Receive(i, PoolRequests)
        \/ Acquire(i)
        \/ CheckCache(i)
        \/ ExchangePrimary(i, PoolAnswers(h[i].req))
        \/ NoRecord(i)
        \/ CdnCheck(i)
        \/ Fallback(i, PoolAnswers(h[i].req))
        \/ Process(i)
        \/ Finish(i)
        \/ Return(i)

SpecPool == Init /\ [][NextPool]_vars

\* ------------------------------------------------------------- SpecPipeline
\* one request through ServeDNS, for every configuration, request, primary
\* reply and fallback reply of the sets below
SeqsUpTo(S, n) == UNION {[1..k -> S] : k \in 0..n}

RuleSets ==
    {<<>>,
     <<Rule(WildCdn, StrategyFilterNonCDN, 0, FALSE, "unset")>>,
     <<Rule(WildCdn, StrategyReturnCDNA, 30, TRUE, "true")>>,
     <<Rule(ExactEdge, StrategyReturnCDNA, 0, TRUE, "unset")>>,
     <<Rule(ExactEdge, StrategyFilterNonCDN, 0, FALSE, "unset")>>,
     <<Rule(WildCdn, StrategyNone, 0, FALSE, "false")>>,
     <<Rule(<<"a", "cdn", "com">>, StrategyNone, 0, FALSE, "true"),
       Rule(WildCdn, StrategyFilterNonCDN, 0, FALSE, "false")>>,
     <<Rule(WildCdn, StrategyFilterNonCDN, 0, FALSE, "unset"),
       Rule(ExactEdge, StrategyReturnCDNA, 30, FALSE, "unset")>>,
     <<Rule(ExactEdge, StrategyFilterNonCDN, 0, FALSE, "unset"),
       Rule(WildCdn, StrategyReturnCDNA, 30, FALSE, "unset")>>}

PipeConfigs ==
    {[CfgA EXCEPT !.domains = r, !.fallback = f, !.noRecordNoFallback = n] :
        r \in RuleSets, f \in {"", " ", "F"}, n \in BOOLEAN}

PipeRequests ==
    {Request(1, <<Question(n, t)>>) : n \in {QA, QUpper, QX}, t \in {"A", "AAAA"}}
    \cup {Request(1, <<Question(QA, "A"), Question(QX, "A")>>)}

\* the records of a reply to a question about the name n
Records(n) ==
    {RR("CNAME", n, Edge, 0, 300), RR("CNAME", Edge, n, 0, 300),
     RR("CNAME", Edge, QA, 0, 300), RR("A", QA, NoName, 0, 300),
     RR("A", n, NoName, 0, 300), RR("A", n, NoName, 3, 300),
     RR("A", Edge, NoName, 1, 300), RR("A", Edge, NoName, 2, 300),
     RR("AAAA", n, NoName, 3, 300)}

PipeAnswers(req) == SeqsUpTo(Records(req.question[1].name), MaxAns)

FallbackAnswers(req) ==
    {<<>>, <<RR("A", req.question[1].name, NoName, 2, 300)>>}

InitPipeline == fn = NoCall /\ \E cfg \in PipeConfigs : NewServer(cfg)

NextPipeline ==
    \/ Receive(1, PipeRequests)
    \/ Acquire(1)
    \/ CheckCache(1)
    \/ ExchangePrimary(1, PipeAnswers(h[1].req))
    \/ NoRecord(1)
    \/ CdnCheck(1)
    \/ Fallback(1, FallbackAnswers(h[1].req))
    \/ Process(1)
    \/ Finish(1)

SpecPipeline == InitPipeline /\ [][NextPipeline]_vars

\* --------------------------------------------------------------- SpecFilter
\* filterNonCDNIPs applied to every response, pattern list and prefix list
\* of the sets below
FilterPatterns == {PatternsOf(<<>>, r) : r \in RuleSets}
FilterCidrs ==
    {AddCIDRs(<<>>, c) : c \in {<<>>, <<Pfx(0, 1)>>, <<Pfx(2, 1)>>, <<Pfx(2, 2), Pfx(1, 2)>>}}
FilterResponses ==
    {Reply(Request(1, <<Question(QA, "A")>>), a) :
        a \in SeqsUpTo(Records(QA), MaxFilterAns)}

InitFilter ==
    /\ NewServer(CfgA)
    /\ \E p \in FilterPatterns, c \in FilterCidrs, r \in FilterResponses :
         fn = [op |-> "filterNonCDNIPs", pats |-> p, cidrs |-> c, resp |-> r,
               done |-> FALSE, out |-> Returns(NoMsg)]

CallFilter ==
    /\ fn.op = "filterNonCDNIPs"
    /\ ~fn.done
    /\ fn' = [fn EXCEPT !.done = TRUE,
                        !.out = FilterOutcome(fn.pats, fn.cidrs, fn.resp)]
    /\ UNCHANGED <<mConfig, serverVars, entries, workerPool, poolCap, h, rl, now,
                   crashed, lsn>>

NextFilter == CallFilter

SpecFilter == InitFilter /\ [][NextFilter]_vars

\* ------------------------------------------------------------------- claims
\* C1 as stated: every store, the ones after a reload that changed the
\* maximum included, leaves at most maxSize entries in the cache.
C1_StoreKeepsCountWithinMax ==
    [][entries' # entries => Cardinality(DOMAIN entries') <= maxSize']_vars

\* the names a rule of the configuration matches, under each of the matchers
\* the server uses
RuleMatchesName(name) ==
    \/ DomainMatch(patterns, name)
    \/ \E k \in DOMAIN sConfig.domains :
         \/ ConfigMatchDomain(sConfig.domains[k].pattern, normalizeDomain(name))
         \/ UtilMatchDomain(sConfig.domains[k].pattern, name)

\* handler i replied after a primary response in which no rule matches the
\* question name or a name of the CNAME chain
RepliedUnmatched(i) ==
    /\ h[i].pc = "done"
    /\ h[i].path \notin {"hit", "primary_error"}
    /\ Len(h[i].req.question) = 1
    /\ ~RuleMatchesName(h[i].req.question[1].name)
    /\ \A d \in ChainDomains(h[i].initialResp) : ~RuleMatchesName(d)

\* an A record of the response has a CDN address and is owned by a CNAME
\* target or by a name a rule matches
CdnOnTargetOrMatched(resp) ==
    \E j \in DOMAIN resp.answer :
        /\ IsA(resp.answer[j])
        /\ CidrContains(cidrs, resp.answer[j].ip)
        /\ \/ normalizeDomain(resp.answer[j].name) \in CnameTargets(resp)
           \/ DomainMatch(patterns, resp.answer[j].name)

C3_FilterKeepsCnamesDropsNonCdn ==
    (fn.op = "filterNonCDNIPs" /\ fn.done /\ ~fn.out.diverges) =>
        LET out == fn.out.msg.answer IN
        /\ SelectSeq(out, IsCNAME) = SelectSeq(fn.resp.answer, IsCNAME)
        /\ \A j \in DOMAIN out :
             out[j].rrtype \in {"A", "AAAA"} => CidrContains(fn.cidrs, out[j].ip)

\* C3 witness: the input had a CNAME, a matched owner's A record outside the
\* prefixes and one inside; the result kept the CNAME and the one inside
C3_Witness ==
    /\ fn.op = "filterNonCDNIPs" /\ fn.done /\ ~fn.out.diverges
    /\ \E j \in DOMAIN fn.resp.answer : IsCNAME(fn.resp.answer[j])
    /\ \E j \in DOMAIN fn.resp.answer :
         /\ IsA(fn.resp.answer[j])
         /\ DomainMatch(fn.pats, fn.resp.answer[j].name)
         /\ ~CidrContains(fn.cidrs, fn.resp.answer[j].ip)
    /\ \E j \in DOMAIN fn.out.msg.answer : IsA(fn.out.msg.answer[j])
    /\ Len(fn.out.msg.answer) < Len(fn.resp.answer)

\* C4 as stated: everything one request consults (rule list, domain matcher,
\* prefix matcher, upstream) comes from one and the same configuration.
C4_RequestSeesOneConfiguration ==
    \A i \in Handlers :
        \E c \in Configs :
            /\ h[i].obs.cfg \subseteq {c}
            /\ h[i].obs.ups \subseteq {c.upstream}
            /\ h[i].obs.pats \subseteq {PatternsOf(<<>>, c.domains)}
            /\ h[i].obs.cidrs \subseteq {AddCIDRs(<<>>, c.cdnIPs)}

\* the handlers that hold a permit
Held == {i \in Handlers : h[i].permit}

\* C5: the free permits plus the permits held by running handlers always add
\* up to the pool's capacity; a handler holds one exactly from its acquire to
\* its exit, whatever the exit (reply, SERVFAIL, panic).
C5_PermitsConserved ==
    /\ workerPool \in 0..poolCap
    /\ workerPool + Cardinality(Held) = poolCap
    /\ \A i \in Handlers :
         h[i].permit <=> h[i].pc \in {"cache", "primary", "norec", "cdncheck",
                                       "fallback", "process", "finish", "hung"}

\* C5 witness: one handler left by the fallback-error exit, another holds the
\* pool's last permit
C5_Witness ==
    \E i, j \in Handlers :
        /\ h[i].pc = "done" /\ h[i].path = "fallback_error"
        /\ h[j].permit
        /\ workerPool = 0

\* C6: a load that fails leaves the published configuration, the server's
\* rule list, matchers, upstream, timeout and cache settings as they were, and
\* calls no listener.
C6_FailedLoadChangesNothing ==
    [][(rl'.loads = rl.loads + 1 /\ rl'.err) =>
         /\ mConfig' = mConfig
         /\ serverVars' = serverVars
         /\ rl'.calls = rl.calls
         /\ rl'.pc = "idle"]_vars

\* C6 witness: a load has failed after requests were served
C6_Witness ==
    /\ rl.err /\ rl.loads = 1 /\ rl.calls = 0
    /\ mConfig = sConfig
    /\ h[1].pc = "done"

\* C7: after a reply was stored, a lookup of the same question before the
\* entry's expiry returns the stored reply (rcode, question, answers) with the
\* id of the lookup, also when the store found the cache full.
C7_StoredReplyIsServedBack ==
    \A i \in Handlers :
        (h[i].pc = "done" /\ h[i].path \in StorePaths) =>
            LET key == CacheKey(h[i].req) IN
            /\ key \in DOMAIN entries
            /\ entries[key].msg = h[i].written[1]
            /\ \A tid \in 1..2 :
                 now <= entries[key].expireAt =>
                    checkCache(entries, now, Request(tid, h[i].req.question))
                      = <<[h[i].written[1] EXCEPT !.id = tid]>>

\* C7 witness: the store found the cache full, and a lookup with another id
\* gets the stored answers
C7_Witness ==
    /\ h[1].pc = "done" /\ h[1].path \in StorePaths /\ h[1].full
    /\ maxSize > 0
    /\ h[1].written[1].answer # <<>>
    /\ h[1].req.id = 1
    /\ checkCache(entries, now, Request(2, h[1].req.question))
         = <<[h[1].written[1] EXCEPT !.id = 2]>>

\* C8: every message ServeDNS writes carries the id of the request it
\* answers.
C8_ReplyCarriesRequestId ==
    \A i \in Handlers :
        \A k \in DOMAIN h[i].written : h[i].written[k].id = h[i].req.id

\* C8 witness: a cache hit on an entry stored under another id
C8_Witness ==
    /\ h[1].pc = "done" /\ h[1].path = "hit"
    /\ entries[CacheKey(h[1].req)].msg.id # h[1].req.id
    /\ h[1].written[1].id = h[1].req.id

\* an A record of the response has a CDN address and is owned by a name of
\* the CNAME chain (an owner or a target of a CNAME) or a rule-matched name
CdnOnChainOrMatched(resp) ==
    \E j \in DOMAIN resp.answer :
        /\ IsA(resp.answer[j])
        /\ CidrContains(cidrs, resp.answer[j].ip)
        /\ \/ normalizeDomain(resp.answer[j].name) \in ChainDomains(resp)
           \/ DomainMatch(patterns, resp.answer[j].name)

\* the no-record skip path applies to handler i
SkipPath(i) ==
    /\ noAorAAAA(h[i].initialResp)
    /\ shouldNoRecordNoFallback(sConfig, h[i].req.question[1].name)

\* C9 as stated: outside the no-record skip path the fallback is queried
\* exactly when the primary response has no CDN-address A record on a
\* rule-matched or CNAME-chain name and a fallback is configured; its reply is
\* sent as received; with no fallback configured the primary response is
\* returned unchanged.
C9_FallbackIffNoCdnOnChain ==
    \A i \in Handlers :
        (/\ h[i].pc = "done"
         /\ h[i].path \notin {"hit", "primary_error"}
         /\ ~SkipPath(i))
        => /\ h[i].toFallback # <<>>
                <=> /\ ~CdnOnChainOrMatched(h[i].initialResp)
                    /\ TrimSpace(sConfig.fallback) # ""
           /\ h[i].toFallback # <<>> => h[i].toFallback = <<h[i].req>>
           /\ h[i].path = "fallback" =>
                \E a \in FallbackAnswers(h[i].req) :
                    h[i].written = <<Reply(h[i].req, a)>>
           /\ (~CdnOnChainOrMatched(h[i].initialResp) /\ TrimSpace(sConfig.fallback) = "")
                => h[i].written = <<h[i].initialResp>>

\* the flag in effect for a name: the override of the first rule matching it
\* when that rule has one, the global flag otherwise
EffectiveNoRecordFlag(cfg, name) ==
    LET idx == {k \in DOMAIN cfg.domains : UtilMatchDomain(cfg.domains[k].pattern, name)}
        first == CHOOSE k \in idx : \A m \in idx : k <= m
    IN IF idx # {} /\ cfg.domains[first].nrnf # "unset"
       THEN cfg.domains[first].nrnf = "true"
       ELSE cfg.noRecordNoFallback

\* C10: when the primary response has no A and no AAAA record and the flag in
\* effect for the question name is true, the fallback is never queried and
\* the reply is the primary response (CNAMEs possibly stripped).
C10_NoRecordSkipsFallback ==
    \A i \in Handlers :
        (/\ h[i].pc \in {"cdncheck", "fallback", "process", "finish", "hung", "done"}
         /\ h[i].path # "primary_error"
         /\ noAorAAAA(h[i].initialResp)
         /\ EffectiveNoRecordFlag(sConfig, h[i].req.question[1].name))
        => /\ h[i].toFallback = <<>>
           /\ h[i].pc \in {"hung", "done"}
           /\ h[i].pc = "done" =>
                /\ h[i].path \in {"norec", "norec_strip"}
                /\ \/ h[i].written = <<h[i].initialResp>>
                   \/ \E d \in ChainDomains(h[i].initialResp)
                               \cup {h[i].req.question[1].name} :
                        h[i].written = <<stripCNAMEsForDomain(h[i].initialResp, d)>>

\* C10 witness: the rule's override is true while the global flag is false
\* and a fallback is configured; the reply is the stripped primary response
C10_Witness ==
    /\ h[1].pc = "done" /\ h[1].path = "norec_strip"
    /\ ~sConfig.noRecordNoFallback
    /\ TrimSpace(sConfig.fallback) # ""
    /\ h[1].initialResp.answer # <<>>
    /\ h[1].written # <<h[1].initialResp>>
    /\ h[1].toFallback = <<>>

\* C11: when the exchange with the primary or the fallback upstream fails,
\* the one message written is SERVFAIL for the request and the step leaves
\* the cache as it was; the cache changes only in a step that ends a request
\* on a storing path, so a request that ends in SERVFAIL stored nothing.
C11_UpstreamFailureIsServfailUncached ==
    [][/\ \A i \in Handlers :
            (/\ h[i].pc \in {"primary", "fallback"}
             /\ h'[i].pc = "done"
             /\ h'[i].path \in {"primary_error", "fallback_error"})
            => /\ entries' = entries
               /\ h'[i].written = <<ServFail(h[i].req)>>
               /\ h'[i].written[1].rcode = RcodeServerFailure
       /\ entries' # entries =>
            \E i \in Handlers :
                /\ h[i].pc \in {"norec", "finish"}
                /\ h'[i].pc = "done"
                /\ h'[i].path \in StorePaths]_vars

\* C11 witness: the fallback exchange failed for a question the cache holds
\* an (expired) entry for
C11_Witness ==
    /\ h[1].pc = "done" /\ h[1].path = "fallback_error"
    /\ h[1].written = <<ServFail(h[1].req)>>
    /\ CacheKey(h[1].req) \in DOMAIN entries
    /\ now > entries[CacheKey(h[1].req)].expireAt

\* C12 as stated: a request with an empty question section is answered with
\* SERVFAIL, stores nothing, and the server keeps running.
C12_EmptyQuestionIsServfail ==
    \A i \in Handlers :
        (Len(h[i].req.question) = 0 /\ h[i].pc \in {"primary", "done", "panicked"})
        => /\ h[i].pc = "done"
           /\ h[i].written = <<ServFail(h[i].req)>>
           /\ ~crashed

\* C13 as stated: every request ServeDNS handles gets exactly one message: a
\* rewritten answer, the primary or the fallback answer, or SERVFAIL.
C13_ExactlyOneMessage ==
    \A i \in Handlers :
        h[i].pc \in {"done", "hung", "panicked"} => Len(h[i].written) = 1

\* ----------------------------------------------------------- SpecReturnCDNA
\* returnCDNARecords applied to every configuration, request and list of
\* found addresses of the sets below
ReturnRuleSets ==
    RuleSets
    \cup {<<Rule(<<"a", "cdn", "com">>, StrategyReturnCDNA, 0, FALSE, "unset"),
            Rule(WildCdn, StrategyReturnCDNA, 30, FALSE, "unset")>>,
          <<Rule(WildCdn, StrategyReturnCDNA, 30, FALSE, "unset"),
            Rule(<<"a", "cdn", "com">>, StrategyReturnCDNA, 10, FALSE, "unset")>>}

ReturnConfigs == {[CfgA EXCEPT !.domains = r] : r \in ReturnRuleSets}

ReturnAddresses == SeqsUpTo(0..(Pow2(AddrBits) - 1), MaxAns)

InitReturnCDNA ==
    /\ NewServer(CfgA)
    /\ \E c \in ReturnConfigs, r \in PipeRequests, a \in ReturnAddresses :
         fn = [op |-> "returnCDNARecords", cfg |-> c, req |-> r, cdnIPs |-> a,
               done |-> FALSE, out |-> NoMsg]

CallReturnCDNA ==
    /\ fn.op = "returnCDNARecords"
    /\ ~fn.done
    /\ fn' = [fn EXCEPT !.done = TRUE,
                        !.out = returnCDNARecords(fn.cfg, fn.req, fn.cdnIPs)]
    /\ UNCHANGED <<mConfig, serverVars, entries, workerPool, poolCap, h, rl, now,
                   crashed, lsn>>

NextReturnCDNA == CallReturnCDNA

SpecReturnCDNA == InitReturnCDNA /\ [][NextReturnCDNA]_vars

\* the TTL the rules give a name: that of the first rule matching it when it
\* is not zero, 60 otherwise
RuleTTL(cfg, name) ==
    LET idx == {k \in DOMAIN cfg.domains : UtilMatchDomain(cfg.domains[k].pattern, name)}
        first == CHOOSE k \in idx : \A m \in idx : k <= m
    IN IF idx # {} /\ cfg.domains[first].ttl # 0 THEN cfg.domains[first].ttl ELSE 60

C15_ReturnCdnAEmptyForOtherTypes ==
    (fn.op = "returnCDNARecords" /\ fn.done /\ fn.req.question[1].qtype # "A") =>
        /\ fn.out.answer = <<>>
        /\ fn.out.id = fn.req.id
        /\ fn.out.question = <<fn.req.question[1]>>

\* C15 witness: an AAAA question with two addresses found
C15_Witness ==
    /\ fn.op = "returnCDNARecords" /\ fn.done
    /\ fn.req.question[1].qtype = "AAAA"
    /\ Len(fn.cdnIPs) = 2
    /\ fn.out.answer = <<>>

\* C17 as stated: the reply to a request with more than one question is the
\* primary upstream's response: not a cached entry of its first question, not
\* a response rewritten after the rules matching its first question.
C17_MultiQuestionForwardedOpaquely ==
    \A i \in Handlers :
        (/\ Len(h[i].req.question) > 1
         /\ h[i].pc = "done"
         /\ h[i].path # "primary_error")
        => /\ h[i].written = <<h[i].initialResp>>
           /\ h[i].path \notin {"hit", "processed"}

\* ----------------------------------------------------------------- SpecLoad
\* the server started from any configuration file the load accepts, serving
\* one name in two spellings while the file is rewritten
BadGlob == <<"*", "[">>

CfgZeroTTL == [CfgA EXCEPT !.cacheTTL = 0]

CfgBadPattern ==
    [CfgA EXCEPT !.domains =
        <<Rule(BadGlob, StrategyFilterNonCDN, 0, FALSE, "unset")>> \o @]

LoadFiles ==
    {File(CfgA), File(CfgZeroTTL), File(CfgBadPattern),
     [parses |-> FALSE, cfg |-> CfgA],
     File([CfgA EXCEPT !.upstream = " "]),
     File([CfgA EXCEPT !.workers = 0]),
     File([CfgA EXCEPT !.cdnIPs = <<>>]),
     File([CfgA EXCEPT !.cdnIPs = <<BadPfx>>])}

LoadRequests ==
    {Request(1, <<Question(QA, "A")>>), Request(2, <<Question(QUpper, "A")>>)}

LoadAnswers(req) ==
    {<<RR("A", req.question[1].name, NoName, 0, 300)>>,
     <<RR("A", req.question[1].name, NoName, 3, 300)>>}

\* dns.NewServer(configPath): the first LoadConfig must succeed
InitLoad ==
    /\ fn = NoCall
    /\ \E file \in LoadFiles :
         /\ ~LoadConfig(file, file.cfg).err
         /\ NewServer(file.cfg)

NextLoad ==
    \/ Receive(1, LoadRequests)
    \/ Acquire(1)
    \/ CheckCache(1)
    \/ ExchangePrimary(1, LoadAnswers(h[1].req))
    \/ NoRecord(1)
    \/ CdnCheck(1)
    \/ Fallback(1, LoadAnswers(h[1].req))
    \/ Process(1)
    \/ Finish(1)
    \/ Return(1)
    \/ LoadConfigStep(LoadFiles)
    \/ OnConfigChange
    \/ Tick

SpecLoad == InitLoad /\ [][NextLoad]_vars

\* two questions the specification calls cache-equivalent: same type and
\* class, names equal after lower-casing and dropping the trailing dot
Equivalent(q1, q2) ==
    /\ q1.qtype = q2.qtype
    /\ q1.qclass = q2.qclass
    /\ normalizeDomain(q1.name) = normalizeDomain(q2.name)

\* C16: two requests whose questions are equal up to letter case and the
\* trailing dot share a cache key, so a lookup never misses while an
\* unexpired response stored for an equivalent question is in the cache (a
\* handler is past a miss when it is about to ask the primary upstream).
C16_EquivalentQuestionsShareEntry ==
    \A i \in Handlers :
        h[i].pc = "primary"
        => ~\E k \in DOMAIN entries :
               /\ Equivalent(k, h[i].req.question[1])
               /\ now <= entries[k].expireAt

\* the lookup of handler i finds an entry for its key whose expiry has passed
LooksUpExpired(i) ==
    /\ Len(h[i].req.question) > 0
    /\ CacheKey(h[i].req) \in DOMAIN entries
    /\ now > entries[CacheKey(h[i].req)].expireAt

\* C18: a lookup that finds an entry whose expiry instant has passed is a
\* miss (nothing is written, the request goes on to the primary upstream),
\* and a message written from the cache comes from an entry that has not
\* expired at the instant of the lookup.
C18_ExpiredEntryIsMiss ==
    [][\A i \in Handlers :
         (h[i].pc = "cache" /\ h'[i].pc # "cache")
         => /\ LooksUpExpired(i) => h'[i].pc = "primary" /\ h'[i].written = <<>>
            /\ h'[i].path = "hit"
               => /\ CacheKey(h[i].req) \in DOMAIN entries
                  /\ now <= entries[CacheKey(h[i].req)].expireAt
                  /\ h'[i].written =
                       <<[entries[CacheKey(h[i].req)].msg EXCEPT !.id = h[i].req.id]>>]_vars

\* a request went past its lookup although an entry for its key, now
\* expired, is in the cache
C18_Witness ==
    /\ h[1].pc = "primary"
    /\ LooksUpExpired(1)
    /\ rl.loads > 0

\* C19: every entry a request stores has an expiry instant strictly greater
\* than the instant of the store, whatever cache TTL the accepted
\* configuration carries.
C19_ExpiryAfterInsertion ==
    [][\A i \in Handlers :
         (/\ h[i].pc \in {"norec", "finish"}
          /\ h'[i].pc = "done"
          /\ h'[i].path \in StorePaths)
         => /\ CacheKey(h[i].req) \in DOMAIN entries'
            /\ entries'[CacheKey(h[i].req)].expireAt > now]_vars

\* a rule pattern is acceptable when it is exact or its glob compiles
PatternAcceptable(p) == HasGlob(p) => Compiles(p)

\* a configuration with one of the defects validation is to refuse
Defective(cfg) ==
    \/ TrimSpace(cfg.upstream) = ""
    \/ cfg.workers <= 0
    \/ Len(cfg.cdnIPs) = 0
    \/ \E i \in DOMAIN cfg.cdnIPs : ~ParsesCIDR(cfg.cdnIPs[i])
    \/ \E i \in DOMAIN cfg.domains : ~PatternAcceptable(cfg.domains[i].pattern)

\* C20: a load of a configuration with an empty primary upstream, no
\* workers, no CDN prefix, an unparsable prefix or an unacceptable rule
\* pattern fails and publishes nothing: after a load that returned no error
\* the published snapshot has none of these defects, and neither has the
\* snapshot handed to the listener.
C20_DefectiveConfigNeverPublished ==
    /\ (rl.loads > 0 /\ ~rl.err) => ~Defective(mConfig)
    /\ rl.pc # "idle" => ~Defective(rl.new)

\* ---------------------------------------------------------------- SpecMatch
\* DomainMatcher.Match and Config.GetDomainStrategy on one wildcard rule and
\* every name of up to MaxLabels labels, with and without the trailing dot; the
\* server hands GetDomainStrategy the normalised name
InitMatch ==
    /\ NewServer(CfgA)
    /\ \E p \in {<<"*", "cdn", "com">>, <<"*", "com">>, <<"*", "a", "com">>},
          n \in SeqsUpTo({"a", "A", "cdn", "com"}, MaxLabels) \ {<<>>},
          dot \in {<<>>, <<"">>} :
         fn = [op |-> "Match", pattern |-> p, name |-> n \o dot,
               done |-> FALSE, matched |-> FALSE, strategy |-> StrategyNone]

CallMatch ==
    /\ fn.op = "Match"
    /\ ~fn.done
    /\ fn' = [fn EXCEPT
                !.done = TRUE,
                !.matched = DomainMatch(AddPattern(<<>>, fn.pattern), fn.name),
                !.strategy = GetDomainStrategy(
                    <<Rule(fn.pattern, StrategyFilterNonCDN, 0, FALSE, "unset")>>,
                    normalizeDomain(fn.name))]
    /\ UNCHANGED <<mConfig, serverVars, entries, workerPool, poolCap, h, rl, now,
                   crashed, lsn>>

SpecMatch == InitMatch /\ [][CallMatch]_vars

\* C21: for a wildcard pattern *.SUFFIX a name one or more labels below
\* SUFFIX matches and the name SUFFIX itself does not, in DomainMatcher.Match
\* and in the rule lookup GetDomainStrategy alike.
C21_WildcardBelowNotApex ==
    (fn.op = "Match" /\ fn.done)
    => LET d == normalizeDomain(fn.name)
           suffix == Tail(fn.pattern) IN
       /\ HasDotSuffix(d, suffix)
          => fn.matched /\ fn.strategy = StrategyFilterNonCDN
       /\ d = suffix
          => ~fn.matched /\ fn.strategy = StrategyNone

\* a name two labels below the suffix, written in upper case with a
\* trailing dot, matched in both places
C21_Witness ==
    /\ fn.op = "Match" /\ fn.done
    /\ fn.pattern = <<"*", "com">>
    /\ fn.name = <<"A", "cdn", "com", "">>
    /\ fn.matched /\ fn.strategy = StrategyFilterNonCDN

\* --------------------------------------------------------------- SpecListen
\* the watcher reloading the configuration while the listener goroutines
\* started by Start and by OnConfigChange get to run
SpecListen ==
    Init /\ [][\/ LoadConfigStep(Files)
               \/ OnConfigChange
               \/ OnConfigChangeStop
               \/ OnConfigChangeStart
               \/ \E j \in 1..(MaxReloads + 1) : ListenBind(j)
               \/ \E j \in 1..(MaxReloads + 1) : ListenAndServe(j)]_vars

\* C22: a successful reload stops the listener and starts a new one on the
\* new endpoint exactly when the endpoint differs, and otherwise leaves the
\* listener alone: the restart steps run only for a changed endpoint, no
\* listener goroutine brings the process down, and once the reload is over
\* and every listener goroutine has run, the one server listening is
\* s.server, bound to the endpoint of the configuration in force.
C22_ListenerFollowsEndpoint ==
    /\ ~crashed
    /\ rl.pc \in {"listenStop", "listenStart"} => rl.old.listen # rl.new.listen
    /\ (rl.pc = "idle" /\ \A j \in DOMAIN lsn.g : lsn.g[j].pc = "done")
       => /\ lsn.cur # 0
          /\ lsn.servers[lsn.cur].addr = sConfig.listen
          /\ \A k \in DOMAIN lsn.servers :
               lsn.servers[k].state = "listening" <=> k = lsn.cur

\* neither the question name nor a name of the response's CNAME chain has a
\* rule with strategy filter_non_cdn or return_cdn_a
NoStrategyAnywhere(cfg, req, resp) ==
    \A d \in {normalizeDomain(req.question[1].name)} \cup ChainDomains(resp) :
        GetDomainStrategy(cfg.domains, d)
            \notin {StrategyFilterNonCDN, StrategyReturnCDNA}

\* rr is an A record with an address inside the server's CDN prefixes
IsCdnA(rr) == IsA(rr) /\ CidrContains(cidrs, rr.ip)

\* C23: when CDN addresses were detected and no filter_non_cdn or
\* return_cdn_a strategy is configured for the question name or a chain
\* name, processResponse returns the filtered response: every CNAME record,
\* every A record with a CDN address, and no A record with another address.
C23_DefaultIsFilteredResponse ==
    \A i \in Handlers :
        (/\ h[i].pc = "done" /\ h[i].path = "processed"
         /\ Len(h[i].cdnIPs) > 0
         /\ NoStrategyAnywhere(sConfig, h[i].req, h[i].initialResp))
        => h[i].written[1].answer =
             SelectSeq(h[i].initialResp.answer, IsCNAME)
               \o SelectSeq(h[i].initialResp.answer, IsCdnA)

\* rr is an A record the specification's filter retains: a CDN address on an
\* owner that matches a rule pattern or is a name of the CNAME chain
Retained(pats, cs, resp, rr) ==
    /\ IsA(rr)
    /\ CidrContains(cs, rr.ip)
    /\ \/ DomainMatch(pats, rr.name)
       \/ normalizeDomain(rr.name) \in ChainDomains(resp)

\* C27: filterNonCDNIPs retains an A record exactly when its address is in
\* the CDN prefix set and its owner matches a rule or is a name of the
\* response's CNAME chain; every other address record is dropped.
C27_FilterRetainsCdnOnMatchedOrChain ==
    (fn.op = "filterNonCDNIPs" /\ fn.done /\ ~fn.out.diverges)
    => LET Keep(rr) == Retained(fn.pats, fn.cidrs, fn.resp, rr)
           NotCname(rr) == ~IsCNAME(rr) IN
       SelectSeq(fn.out.msg.answer, NotCname) = SelectSeq(fn.resp.answer, Keep)

\* ----------------------------------------------------------------- SpecCidr
\* a CIDRMatcher driven by any sequence of AddCIDR, AddCIDRs, RemoveCIDR and
\* Clear; fn keeps the networks added and not since removed or cleared, the
\* last call and the list before it
CidrStrings == {Pfx(0, 1), Pfx(1, 1), Pfx(2, 1), Pfx(2, 2), Pfx(3, 2), BadPfx}

CidrCall(op, arg, added) ==
    [op |-> "CIDRMatcher", last |-> op, arg |-> arg, prev |-> cidrs, added |-> added]

CidrAdd ==
    \E s \in CidrStrings :
        /\ cidrs' = AddCIDR(cidrs, s)
        /\ fn' = CidrCall("AddCIDR", <<s>>,
                          fn.added \cup IF ParsesCIDR(s) THEN {ParseCIDR(s)} ELSE {})
    /\ UNCHANGED <<mConfig, sConfig, upstream, timeout, patterns, maxSize, ttl,
                   entries, workerPool, poolCap, h, rl, now, crashed, lsn>>

CidrAddMany ==
    \E strs \in SeqsUpTo(CidrStrings, 2) :
        /\ cidrs' = AddCIDRs(cidrs, strs)
        /\ fn' = CidrCall("AddCIDRs", strs,
                          fn.added \cup {ParseCIDR(strs[i]) :
                              i \in {k \in DOMAIN strs :
                                       \A j \in 1..k : ParsesCIDR(strs[j])}})
    /\ UNCHANGED <<mConfig, sConfig, upstream, timeout, patterns, maxSize, ttl,
                   entries, workerPool, poolCap, h, rl, now, crashed, lsn>>

CidrRemove ==
    \E s \in CidrStrings :
        /\ cidrs' = RemoveCIDR(cidrs, s)
        /\ fn' = CidrCall("RemoveCIDR", <<s>>,
                          fn.added \ IF ParsesCIDR(s) THEN {ParseCIDR(s)} ELSE {})
    /\ UNCHANGED <<mConfig, sConfig, upstream, timeout, patterns, maxSize, ttl,
                   entries, workerPool, poolCap, h, rl, now, crashed, lsn>>

CidrClear ==
    /\ cidrs' = <<>>
    /\ fn' = CidrCall("Clear", <<>>, {})
    /\ UNCHANGED <<mConfig, sConfig, upstream, timeout, patterns, maxSize, ttl,
                   entries, workerPool, poolCap, h, rl, now, crashed, lsn>>

SpecCidr ==
    /\ NewServer(CfgA)
    /\ fn = [op |-> "CIDRMatcher", last |-> "NewCIDRMatcher", arg |-> <<>>,
             prev |-> <<>>, added |-> {ParseCIDR(CfgA.cdnIPs[1])}]
    /\ [][CidrAdd \/ CidrAddMany \/ CidrRemove \/ CidrClear]_vars

\* C24: after any sequence of add, add-many, remove and clear, contains(a)
\* is true exactly when a lies in a prefix added and not since removed or
\* cleared, and adding a prefix that is present leaves the list as it was.
C24_ContainsIffAddedAndKept ==
    fn.op = "CIDRMatcher"
    => /\ \A a \in 0..(Pow2(AddrBits) - 1) :
            CidrContains(cidrs, a) <=> \E p \in fn.added : NetContains(p, a)
       /\ (/\ fn.last = "AddCIDR"
           /\ ParsesCIDR(fn.arg[1])
           /\ \E i \in DOMAIN fn.prev : fn.prev[i] = ParseCIDR(fn.arg[1]))
          => cidrs = fn.prev

\* 1/1 was added to a matcher already holding 0/1, the same prefix, and then
\* removed once: address 0 is no longer contained while 2/2 still is
C24_Witness ==
    /\ fn.op = "CIDRMatcher"
    /\ fn.last = "RemoveCIDR" /\ fn.arg = <<Pfx(1, 1)>>
    /\ Len(fn.prev) = 2
    /\ fn.prev[1] = ParseCIDR(Pfx(0, 1))
    /\ cidrs = <<ParseCIDR(Pfx(2, 2))>>
    /\ ~CidrContains(cidrs, 0) /\ CidrContains(cidrs, 2)

\* handler i has replied with the result of processResponse for a request
\* whose question name and chain names have no filter_non_cdn or
\* return_cdn_a rule
RepliedWithoutStrategy(i) ==
    /\ h[i].pc = "done" /\ h[i].path = "processed"
    /\ NoStrategyAnywhere(sConfig, h[i].req, h[i].initialResp)

AppliedFilter(i) ==
    LET out == h[i].written[1]
        P == h[i].initialResp IN
    /\ out.question = P.question
    /\ SelectSeq(out.answer, IsCNAME) = SelectSeq(P.answer, IsCNAME)
    /\ \A j \in DOMAIN out.answer :
         \/ IsCNAME(out.answer[j])
         \/ IsCdnA(out.answer[j]) /\ \E k \in DOMAIN P.answer : P.answer[k] = out.answer[j]

\* the reply of handler i is the synthesised one: a reply to the first
\* question with, for type A, one A record per detected address owned by the
\* question name, and otherwise no record
AppliedReturn(i) ==
    LET out == h[i].written[1]
        q == h[i].req.question[1] IN
    /\ out.question = <<q>>
    /\ Len(out.answer) = IF q.qtype = "A" THEN Len(h[i].cdnIPs) ELSE 0
    /\ \A j \in DOMAIN out.answer :
         /\ out.answer[j].rrtype = "A"
         /\ out.answer[j].name = q.name
         /\ out.answer[j].ip = h[i].cdnIPs[j]
         /\ out.answer[j].ttl = RuleTTL(sConfig, q.name)

\* the strategy of the first rule matching the question name of handler i
QuestionStrategy(i) ==
    GetDomainStrategy(sConfig.domains, normalizeDomain(h[i].req.question[1].name))

\* C26: when the question name has a rule with strategy filter_non_cdn or
\* return_cdn_a, the reply of the policy decision is the one that strategy
\* produces, whatever rules match the names of the response's CNAME chain.
C26_QuestionRuleWins ==
    \A i \in Handlers :
        (h[i].pc = "done" /\ h[i].path = "processed")
        => /\ QuestionStrategy(i) = StrategyFilterNonCDN => AppliedFilter(i)
           /\ QuestionStrategy(i) = StrategyReturnCDNA => AppliedReturn(i)

\* the question name has a filter_non_cdn rule, a name of the chain has a
\* return_cdn_a rule, and the reply is the filtered response, not the
\* synthesised one
C26_Witness ==
    /\ h[1].pc = "done" /\ h[1].path = "processed"
    /\ QuestionStrategy(1) = StrategyFilterNonCDN
    /\ \E d \in ChainDomains(h[1].initialResp) :
         /\ DomainMatch(patterns, d)
         /\ GetDomainStrategy(sConfig.domains, d) = StrategyReturnCDNA
    /\ AppliedFilter(1) /\ ~AppliedReturn(1)

\* the effective strategy and policy-domain of the no-record path: the
\* question name with its own strategy, or, when it has none, a chain name
\* whose rule has return_cdn_a
NoRecordPolicies(cfg, req, resp) ==
    LET q == normalizeDomain(req.question[1].name)
        viaChain == {d \in ChainDomains(resp) :
                        GetDomainStrategy(cfg.domains, d) = StrategyReturnCDNA}
    IN IF GetDomainStrategy(cfg.domains, q) = StrategyNone /\ viaChain # {}
       THEN {<<StrategyReturnCDNA, d>> : d \in viaChain}
       ELSE {<<GetDomainStrategy(cfg.domains, q), q>>}

\* the first rule matching the name enables strip_cname_when_no_record
StripRuleEnabled(cfg, name) ==
    LET idx == {k \in DOMAIN cfg.domains : UtilMatchDomain(cfg.domains[k].pattern, name)}
        first == CHOOSE k \in idx : \A m \in idx : k <= m
    IN idx # {} /\ cfg.domains[first].strip

\* C28: a request that ends on the no-record skip path is answered with
\* strip_cnames of the primary response for the policy-domain when the
\* effective strategy is return_cdn_a and the policy-domain's rule enables
\* strip_cname_when_no_record, with the unchanged primary response otherwise,
\* and the step stores that reply in the cache under the request's key.
C28_NoRecordStripIffEnabled ==
    [][\A i \in Handlers :
         (h[i].pc = "norec" /\ h'[i].pc = "done")
         => LET req == h[i].req
                P == h[i].initialResp
            IN /\ \E e \in NoRecordPolicies(sConfig, req, P) :
                    IF e[1] = StrategyReturnCDNA /\ StripRuleEnabled(sConfig, e[2])
                    THEN /\ h'[i].path = "norec_strip"
                         /\ h'[i].written = <<stripCNAMEsForDomain(P, e[2])>>
                    ELSE /\ h'[i].path = "norec"
                         /\ h'[i].written = <<P>>
               /\ CacheKey(req) \in DOMAIN entries'
               /\ entries'[CacheKey(req)].msg = h'[i].written[1]]_vars

\* C28 witness: the question name has no strategy, a chain name's rule has
\* return_cdn_a and enables the strip, and the cached reply lost a CNAME
C28_Witness ==
    /\ h[1].pc = "done" /\ h[1].path = "norec_strip"
    /\ GetDomainStrategy(sConfig.domains,
                         normalizeDomain(h[1].req.question[1].name)) = StrategyNone
    /\ Len(h[1].written[1].answer) < Len(h[1].initialResp.answer)
    /\ CacheKey(h[1].req) \in DOMAIN entries
    /\ entries[CacheKey(h[1].req)].msg = h[1].written[1]

\* ---------------------------------------------------------------- SpecChain
\* the two loops that follow a response's CNAME links, one iteration a step:
\* the strip-set collection of stripCNAMEsForDomain and CNAMEChain.TraceChain
ChainRecords ==
    {RR("CNAME", a, b, 0, 300) : a, b \in {QA, Edge, QX}}
    \cup {RR("CNAME", QUpper, Edge, 0, 300), RR("A", Edge, NoName, 0, 300)}

\* Server.stripCNAMEsForDomain: the prologue, then one iteration of the loop
\* that collects toStrip; the iteration that breaks emits the new response
StripLoop ==
    /\ fn.op = "stripCNAMEsForDomain"
    /\ fn.pc \in {"start", "loop"}
    /\ IF fn.pc = "start"
       THEN fn' = [fn EXCEPT !.pc = "loop", !.current = normalizeDomain(fn.domain)]
       ELSE LET cnameMap == CnameMap(fn.resp.answer)
                toStrip == fn.toStrip \cup {fn.current}
            IN IF fn.current \notin MapKeys(cnameMap)
                  \/ MapVal(cnameMap, fn.current) = fn.current
               THEN fn' = [fn EXCEPT !.pc = "done", !.toStrip = toStrip,
                                     !.result = <<withoutCNAMEs(fn.resp, toStrip)>>]
               ELSE fn' = [fn EXCEPT !.toStrip = toStrip,
                                     !.current = MapVal(cnameMap, fn.current)]
    /\ UNCHANGED <<mConfig, serverVars, entries, workerPool, poolCap, h, rl, now,
                   crashed, lsn>>

\* CNAMEChain.TraceChain on the chain BuildFromResponse built: the prologue,
\* then one iteration of the loop; the chain it appends to grows with every
\* iteration, and the run is followed for MaxChain names
TraceChain ==
    /\ fn.op = "TraceChain"
    /\ fn.pc \in {"start", "loop"}
    /\ Len(fn.chain) < MaxChain
    /\ LET links == CnameMap(fn.resp.answer)
           sourceDomain == normalizeDomain(fn.domain)
       IN IF fn.pc = "start"
          THEN IF sourceDomain \notin ChainDomains(fn.resp)
               THEN fn' = [fn EXCEPT !.pc = "done"]
               ELSE fn' = [fn EXCEPT !.pc = "loop", !.chain = <<sourceDomain>>,
                                     !.current = sourceDomain]
          ELSE IF fn.current \notin MapKeys(links)
               THEN fn' = [fn EXCEPT !.pc = "done", !.result = <<fn.chain>>]
               ELSE fn' = [fn EXCEPT !.chain = Append(@, MapVal(links, fn.current)),
                                     !.current = MapVal(links, fn.current)]
    /\ UNCHANGED <<mConfig, serverVars, entries, workerPool, poolCap, h, rl, now,
                   crashed, lsn>>

\* a call of either function on a response and a name
SpecChain ==
    /\ NewServer(CfgA)
    /\ \E o \in {"stripCNAMEsForDomain", "TraceChain"}, d \in {QUpper, Edge, QX},
          ans \in SeqsUpTo(ChainRecords, MaxChainAns) :
          fn = [op |-> o, pc |-> "start", domain |-> d,
                resp |-> Msg(1, RcodeSuccess, <<Question(d, "A")>>, ans),
                current |-> NoName, toStrip |-> {}, chain |-> <<>>, result |-> <<>>]
    /\ [][StripLoop \/ TraceChain]_vars

\* the names visited by following the response's CNAME links from a name
VisitedFrom(resp, name) ==
    LET m == CnameMap(resp.answer)
        visited[k \in 0..Len(resp.answer)] ==
            IF k = 0 THEN {normalizeDomain(name)}
            ELSE visited[k - 1] \cup
                 {MapVal(m, x) : x \in visited[k - 1] \cap MapKeys(m)}
    IN visited[Len(resp.answer)]

\* C29: the message strip_cnames returns for a response and a target domain
\* is the response without exactly the CNAME records whose owner is visited
\* by following the CNAME links from the target domain: every other record is
\* kept, in order, and the response passed in is left as it was.
C29_StripRemovesExactlyVisitedCnames ==
    [][(fn.op = "stripCNAMEsForDomain" /\ fn'.pc = "done")
       => /\ fn'.result =
               <<[fn.resp EXCEPT !.answer =
                    SelectSeq(fn.resp.answer,
                        LAMBDA rr : ~(/\ IsCNAME(rr)
                                      /\ normalizeDomain(rr.name)
                                           \in VisitedFrom(fn.resp, fn.domain)))]>>
          /\ fn'.resp = fn.resp]_vars

\* C29 witness: the call returned a response that lost the CNAME record of
\* the target and kept a CNAME record of another owner and an A record
C29_Witness ==
    /\ fn.op = "stripCNAMEsForDomain" /\ fn.pc = "done"
    /\ Cardinality(fn.toStrip) = 2
    /\ Len(fn.resp.answer) = 3
    /\ Len(fn.result[1].answer) = 2
    /\ \E k \in 1..2 : IsCNAME(fn.result[1].answer[k])
    /\ \E k \in 1..2 : ~IsCNAME(fn.result[1].answer[k])

\* C30: every traversal of a response's CNAME links comes to an end, whatever
\* the CNAME records are, because it stops at the first missing link or the
\* first revisit of a name: no iteration of the strip-set collection starts
\* at a name that is already in the strip set, and TraceChain never appends a
\* name its chain already holds. (Each loop is deterministic over a finite
\* map, so it returns exactly when it never starts an iteration at a name it
\* has been at.)
C30_TraversalStopsOnRevisit ==
    fn.pc = "loop"
    => /\ fn.op = "stripCNAMEsForDomain" => fn.current \notin fn.toStrip
       /\ fn.op = "TraceChain"
          => \A j, k \in DOMAIN fn.chain : fn.chain[j] = fn.chain[k] => j = k

\* C33: when OnConfigChange(old, new) has completed, the domain matcher holds
\* exactly the patterns of new's rules, the prefix matcher exactly new's
\* prefixes, the cache's maximum size and TTL are new's, and the primary
\* upstream endpoint and the timeout are new's.
C33_ServerFollowsNewSnapshot ==
    (rl.pc = "idle" /\ rl.calls > 0)
    => /\ {patterns[i] : i \in DOMAIN patterns}
            = {rl.new.domains[k].pattern : k \in DOMAIN rl.new.domains}
       /\ {cidrs[i] : i \in DOMAIN cidrs}
            = {ParseCIDR(rl.new.cdnIPs[k]) : k \in DOMAIN rl.new.cdnIPs}
       /\ maxSize = rl.new.cacheSize
       /\ ttl = rl.new.cacheTTL
       /\ upstream = rl.new.upstream
       /\ timeout = rl.new.timeout

\* C33 witness: a reload to a snapshot that differs from the old one in its
\* rules, prefixes, cache settings, upstream and listen endpoint has completed
C33_Witness ==
    /\ rl.pc = "idle" /\ rl.calls = 1
    /\ rl.old.domains # rl.new.domains
    /\ rl.old.cdnIPs # rl.new.cdnIPs
    /\ rl.old.listen # rl.new.listen
    /\ maxSize # rl.old.cacheSize
    /\ upstream # rl.old.upstream

\* C34: when the presence check found CDN addresses in the primary response
\* and the reply is produced by filter_non_cdn, every A record the presence
\* check counted (a CDN address owned by a CNAME target or by a name the
\* matcher matches) is in the reply, so the reply has at least one A record.
C34_FilterKeepsCountedRecords ==
    \A i \in Handlers :
        (/\ h[i].pc = "done" /\ h[i].path = "processed"
         /\ Len(h[i].cdnIPs) > 0
         /\ StrategyReturnCDNA
              \notin SelectedStrategies(sConfig, patterns, h[i].req, h[i].initialResp))
        => LET P == h[i].initialResp.answer
               out == h[i].written[1].answer
           IN /\ \A k \in DOMAIN P :
                   (/\ IsCdnA(P[k])
                    /\ \/ normalizeDomain(P[k].name) \in CnameTargets(h[i].initialResp)
                       \/ DomainMatch(patterns, P[k].name))
                   => \E j \in DOMAIN out : out[j] = P[k]
              /\ \E j \in DOMAIN out : IsA(out[j])

\* C35: a request that holds a worker permit releases it in the end, whatever
\* the upstream answered: a handler with a permit is at a step of ServeDNS
\* that completes (a cache lookup, an exchange that returns, a rewrite that
\* returns, the store and the write), never inside a rewrite whose loop does
\* not end.
C35_PermitIsReleased ==
    \A i \in Handlers :
        h[i].permit => h[i].pc \in {"cache", "primary", "norec", "cdncheck",
                                    "fallback", "process", "finish"}

\* C38: a step of OnConfigChange leaves the cache entries, their messages and
\* their expiry instants as they are: only the maximum size and the TTL used
\* by later stores change, so a lookup after the reload still returns an
\* unexpired reply stored before it.
C38_ReloadKeepsCacheEntries ==
    [][rl' # rl => entries' = entries]_vars

\* C38 witness: a reload that changed the rules and raised the TTL has
\* completed, and a lookup after it was answered from an entry whose expiry
\* instant was set with the old TTL
C38_Witness ==
    /\ rl.pc = "idle" /\ rl.calls = 1
    /\ rl.old.domains # rl.new.domains
    /\ rl.old.cacheTTL < rl.new.cacheTTL
    /\ h[1].pc = "done" /\ h[1].path = "hit"
    /\ CacheKey(h[1].req) \in DOMAIN entries
    /\ entries[CacheKey(h[1].req)].expireAt < ttl

\* C37: for a fixed configuration, request and primary response the pipeline
\* has one possible strategy, one possible policy-domain and one possible
\* reply: at the policy decision of the CDN-found path and of the no-record
\* path the code's choice does not depend on the execution.
C37_PolicyDecisionIsDeterministic ==
    \A i \in Handlers :
        /\ h[i].pc = "process"
           => /\ Cardinality(SelectedStrategies(sConfig, patterns, h[i].req,
                                                h[i].initialResp)) = 1
              /\ Cardinality(processResponse(sConfig, patterns, cidrs, h[i].req,
                                             h[i].initialResp, h[i].cdnIPs)) = 1
        /\ h[i].pc = "norec"
           => Cardinality(effectiveStrategyForNoRecord(sConfig, patterns, h[i].req,
                                                       h[i].initialResp)) = 1

\* --------------------------------------------------------------- SpecNotify
\* ConfigManager with its listeners: LoadConfig publishing snapshots 1, 2, ...
\* (0 is the nil configuration before the first load), notifyListeners
\* calling the listeners one after the other, and AddListener and
\* RemoveListener called by other goroutines and by a listener that is being
\* notified. Listener 1 returns, listener 2 panics, listener 3 adds or
\* removes a listener before it returns.
\* ConfigManager.RemoveListener: the first occurrence is deleted
RemoveListener(listeners, l) ==
    IF \A i \in DOMAIN listeners : listeners[i] # l THEN listeners
    ELSE LET i == CHOOSE k \in DOMAIN listeners :
                    listeners[k] = l /\ \A j \in 1..(k - 1) : listeners[j] # l
         IN SubSeq(listeners, 1, i - 1) \o SubSeq(listeners, i + 1, Len(listeners))

\* AddListener or RemoveListener called while no notification step runs
ListenerCall ==
    /\ fn.op = "ConfigManager"
    /\ \E l \in 1..3 :
         \/ /\ Len(fn.listeners) < MaxListeners
            /\ fn' = [fn EXCEPT !.listeners = Append(@, l), !.gone = @ \ {l}]
         \/ fn' = [fn EXCEPT !.listeners = RemoveListener(@, l),
                             !.gone = @ \cup {l}]
    /\ UNCHANGED <<mConfig, serverVars, entries, workerPool, poolCap, h, rl, now,
                   crashed, lsn>>

\* ConfigManager.LoadConfig up to the copy of the listener list: a file that
\* does not load or validate returns the error; otherwise the snapshot is
\* published and, unless the old configuration is nil, notifyListeners copies
\* m.listeners
ManagerLoadConfig ==
    /\ fn.op = "ConfigManager"
    /\ fn.pc = "idle"
    /\ fn.loads < MaxLoads
    /\ \E ok \in BOOLEAN :
         IF ~ok
         THEN fn' = [fn EXCEPT !.loads = @ + 1, !.ret = "err"]
         ELSE fn' = [fn EXCEPT
                       !.loads = @ + 1, !.config = fn.loads + 1,
                       !.old = fn.config, !.new = fn.loads + 1,
                       !.calls = <<>>,
                       !.atLoad = IF fn.config = 0 THEN <<>> ELSE fn.listeners,
                       !.snap = IF fn.config = 0 THEN <<>> ELSE fn.listeners,
                       !.idx = 1,
                       !.pc = IF fn.config = 0 \/ fn.listeners = <<>>
                              THEN "idle" ELSE "notify",
                       !.ret = IF fn.config = 0 \/ fn.listeners = <<>>
                               THEN "nil" ELSE "running"]
    /\ UNCHANGED <<mConfig, serverVars, entries, workerPool, poolCap, h, rl, now,
                   crashed, lsn>>

\* a notification loop that lets a listener's panic through
notifyListenersNoRecover ==
    /\ fn.op = "ConfigManager"
    /\ fn.pc = "notify"
    /\ LET l == fn.snap[fn.idx]
           last == fn.idx = Len(fn.snap) \/ l = 2
       IN fn' = [fn EXCEPT !.calls = Append(@, [l |-> l, old |-> fn.old, new |-> fn.new]),
                           !.idx = @ + 1,
                           !.pc = IF last THEN "idle" ELSE @,
                           !.ret = IF l = 2 THEN "panic"
                                   ELSE IF last THEN "nil" ELSE @]
    /\ UNCHANGED <<mConfig, serverVars, entries, workerPool, poolCap, h, rl, now,
                   crashed, lsn>>

\* ConfigManager.notifyListeners, one iteration of the loop over the copy:
\* the listener is called with (old, new) and its panic is recovered; after
\* the last one LoadConfig returns nil
notifyListeners ==
    /\ fn.op = "ConfigManager"
    /\ fn.pc = "notify"
    /\ LET l == fn.snap[fn.idx]
           last == fn.idx = Len(fn.snap)
           called == [fn EXCEPT
                        !.calls = Append(@, [l |-> l, old |-> fn.old, new |-> fn.new]),
                        !.idx = @ + 1,
                        !.pc = IF last THEN "idle" ELSE @,
                        !.ret = IF last THEN "nil" ELSE @]
       IN IF l # 3 THEN fn' = called
          ELSE \E x \in 1..3 :
                 \/ /\ Len(fn.listeners) < MaxListeners
                    /\ fn' = [called EXCEPT !.listeners = Append(@, x),
                                            !.gone = @ \ {x}]
                 \/ fn' = [called EXCEPT !.listeners = RemoveListener(@, x),
                                         !.gone = @ \cup {x}]
    /\ UNCHANGED <<mConfig, serverVars, entries, workerPool, poolCap, h, rl, now,
                   crashed, lsn>>

SpecNotify ==
    /\ NewServer(CfgA)
    /\ fn = [op |-> "ConfigManager", pc |-> "idle", config |-> 0, listeners |-> <<>>,
             loads |-> 0, ret |-> "none", old |-> 0, new |-> 0, snap |-> <<>>,
             atLoad |-> <<>>, idx |-> 1, calls |-> <<>>, gone |-> {}]
    /\ [][ListenerCall \/ ManagerLoadConfig \/ notifyListeners]_vars

\* C31: on a successful reload the listeners registered at that moment are
\* called one after the other in registration order with (old, new), all of
\* them before LoadConfig returns; a listener's panic does not keep the later
\* listeners from being called, LoadConfig still returns nil and the published
\* snapshot stays.
C31_ListenersNotifiedInOrder ==
    /\ fn.pc = "notify"
       => /\ fn.config = fn.new
          /\ fn.ret = "running"
          /\ Len(fn.calls) = fn.idx - 1
    /\ (fn.pc = "idle" /\ fn.ret # "none" /\ fn.old # 0)
       => /\ fn.config = fn.new
          /\ fn.ret \in {"nil", "err"}
          /\ fn.calls = [k \in DOMAIN fn.atLoad |->
                           [l |-> fn.atLoad[k], old |-> fn.old, new |-> fn.new]]

\* C31 witness: a reload has returned nil after calling three listeners, the
\* panicking one first
C31_Witness ==
    /\ fn.pc = "idle" /\ fn.ret = "nil" /\ fn.old # 0
    /\ Len(fn.calls) = 3
    /\ fn.calls[1].l = 2
    /\ fn.calls[2].l = 3
    /\ fn.calls[3].l = 1

\* C32: the initial load calls no listener; the listeners called by a reload
\* are those registered when the reload copied the list, whatever a listener
\* adds or removes while the round runs; and a listener for which
\* RemoveListener has returned (and AddListener was not called again) is not
\* called by a reload that starts afterwards.
C32_RegisteredListenersOnly ==
    [][/\ (fn'.loads > fn.loads /\ fn.config = 0) => fn'.pc = "idle" /\ fn'.calls = <<>>
       /\ (fn'.loads > fn.loads /\ fn'.pc = "notify")
          => /\ fn'.snap = fn.listeners
             /\ \A k \in DOMAIN fn'.snap : fn'.snap[k] \notin fn.gone
       /\ (fn.pc = "notify" /\ fn'.pc = "idle")
          => [k \in DOMAIN fn'.calls |-> fn'.calls[k].l] = fn.atLoad]_vars

\* ------------------------------------------- Server.Stop and the watcher loop
\* ConfigManager.StopWatching under m.mu: nothing when watching was not
\* started; otherwise the stop channel and the watcher are closed (Close
\* returns when the watcher's reader has ended and its Events channel is
\* closed), m.watcher = nil and m.watchingStarted = false.  pc is where the
\* loop's LoadConfig stands: before notifyListeners took m.mu the loop's next
\* read of m.watcher is ordered after the assignment, later it races with it
StopWatching(l, pc) ==
    IF l.watching
    THEN [l EXCEPT !.watching = FALSE, !.racy = (pc # "config")]
    ELSE l

\* a caller of ConfigManager.StopWatching
ManagerStopWatching ==
    /\ ~crashed
    /\ lsn.watching
    /\ lsn' = StopWatching(lsn, rl.pc)
    /\ UNCHANGED <<mConfig, serverVars, entries, workerPool, poolCap, fn, h, rl,
                   now, crashed>>

\* Server.Stop: with s.mu held (no OnConfigChange is running) StopWatching,
\* close(s.shutdownChan), s.server.Shutdown() with its error only logged,
\* s.server = nil
Stop ==
    /\ ~crashed
    /\ ~lsn.stopped
    /\ rl.pc \in {"idle", "config"}
    /\ lsn' = [StopWatching(lsn, rl.pc) EXCEPT
                 !.servers = IF lsn.cur = 0 THEN @ ELSE Shutdown(@, lsn.cur),
                 !.cur = 0,
                 !.stopped = TRUE]
    /\ UNCHANGED <<mConfig, serverVars, entries, workerPool, poolCap, fn, h, rl,
                   now, crashed>>

\* runWatcherLoop, the select receives a write or create event for the
\* configuration file from the open watcher and calls LoadConfig
WatcherEvent ==
    /\ lsn.loop = "running"
    /\ lsn.watching
    /\ lsn.seen = rl.loads
    /\ LoadConfigStep(Files)

\* runWatcherLoop between two events.  At the top of the for statement the
\* select evaluates m.watcher.Events: with m.watcher nil the goroutine
\* panics, and nothing recovers it (where the read races with the
\* assignment it may also see the closed watcher, and return); otherwise it
\* blocks in the select.  Blocked in the select, it returns when the stop
\* channel or the Events channel has been closed.
runWatcherLoop ==
    /\ ~crashed
    /\ lsn.loop = "running"
    /\ rl.pc = "idle"
    /\ \/ /\ lsn.seen # rl.loads
          /\ lsn.watching
          /\ lsn' = [lsn EXCEPT !.seen = rl.loads]
          /\ UNCHANGED crashed
       \/ /\ lsn.seen # rl.loads
          /\ ~lsn.watching
          /\ \/ /\ lsn' = [lsn EXCEPT !.loop = "panicked"]
                /\ crashed' = TRUE
             \/ /\ lsn.racy
                /\ lsn' = [lsn EXCEPT !.loop = "exited"]
                /\ UNCHANGED crashed
       \/ /\ lsn.seen = rl.loads
          /\ ~lsn.watching
          /\ lsn' = [lsn EXCEPT !.loop = "exited"]
          /\ UNCHANGED crashed
    /\ UNCHANGED <<mConfig, serverVars, entries, workerPool, poolCap, fn, h, rl, now>>

\* the server started, the watcher loop taking file events and reloading,
\* the listener goroutines, and Stop and StopWatching called at any moment
SpecStop ==
    Init /\ [][\/ WatcherEvent
               \/ runWatcherLoop
               \/ OnConfigChange
               \/ OnConfigChangeStop
               \/ OnConfigChangeStart
               \/ \E j \in 1..(MaxReloads + 1) : ListenBind(j)
               \/ \E j \in 1..(MaxReloads + 1) : ListenAndServe(j)
               \/ ManagerStopWatching
               \/ Stop]_vars

\* C36: once Stop has returned, no dns.Server of the process is listening,
\* whatever a reload in progress or a listener goroutine does afterwards.
C36_NoListenerAfterStop ==
    (lsn.stopped /\ ~crashed)
    => \A k \in DOMAIN lsn.servers : lsn.servers[k].state # "listening"

\* C39: after StopWatching has returned the watcher loop starts no LoadConfig
\* and does not end in a panic.
C39_StoppedWatcherIsQuiet ==
    [][/\ ~lsn.watching => rl'.loads = rl.loads
       /\ lsn'.loop # "panicked"]_vars

\* ---------------------------------------------------------------- the locks
\* The goroutines of the process as the sequences of lock operations their
\* code performs: "L" Lock, "U" Unlock, "R" RLock, "RU" RUnlock of the
\* sync.RWMutex named, and "W", dns.Server.Shutdown waiting for the handlers
\* in flight.  smu is Server.mu, cache is DNSCache.mu, cidr and domain are
\* the matchers' locks, reload is ConfigManager.reloadLock and mmu is
\* ConfigManager.mu.
Locks == {"smu", "cache", "cidr", "domain", "reload", "mmu"}

\* Server.Start: s.mu, then StartWatching, which takes m.mu to mark the
\* watcher started and does not load a configuration NewServer has loaded
StartLocks == <<<<"L", "smu">>, <<"L", "mmu">>, <<"U", "mmu">>, <<"U", "smu">>>>

\* Server.Stop: s.mu, StopWatching under m.mu, Shutdown, deferred unlock
StopLocks ==
    <<<<"L", "smu">>, <<"L", "mmu">>, <<"U", "mmu">>, <<"W", "smu">>,
      <<"U", "smu">>>>

\* a reload that keeps m.mu read-locked while it calls the listeners
LoadConfigLocksHeld ==
    <<<<"L", "reload">>, <<"R", "mmu">>,
      <<"L", "smu">>,
      <<"L", "cidr">>, <<"U", "cidr">>, <<"L", "cidr">>, <<"U", "cidr">>,
      <<"L", "domain">>, <<"U", "domain">>, <<"L", "domain">>, <<"U", "domain">>,
      <<"L", "cache">>, <<"U", "cache">>,
      <<"W", "smu">>, <<"U", "smu">>,
      <<"RU", "mmu">>, <<"U", "reload">>>>

\* ConfigManager.LoadConfig from the watcher loop: reloadLock until it
\* returns; notifyListeners copies the listeners under m.mu and releases it;
\* Server.OnConfigChange under s.mu clears and fills the two matchers (each
\* call locks on its own), sets the cache settings under the cache lock and,
\* for a changed endpoint, shuts the old dns.Server down
LoadConfigLocks ==
    <<<<"L", "reload">>, <<"R", "mmu">>, <<"RU", "mmu">>,
      <<"L", "smu">>,
      <<"L", "cidr">>, <<"U", "cidr">>, <<"L", "cidr">>, <<"U", "cidr">>,
      <<"L", "domain">>, <<"U", "domain">>, <<"L", "domain">>, <<"U", "domain">>,
      <<"L", "cache">>, <<"U", "cache">>,
      <<"W", "smu">>, <<"U", "smu">>,
      <<"U", "reload">>>>

\* Server.ServeDNS: checkCache, DomainMatcher.Match and CIDRMatcher.Contains
\* of checkCNAMEForCDNIP and of filterNonCDNIPs, updateCache
ServeDNSLocks ==
    <<<<"R", "cache">>, <<"RU", "cache">>,
      <<"R", "domain">>, <<"RU", "domain">>, <<"R", "cidr">>, <<"RU", "cidr">>,
      <<"R", "domain">>, <<"RU", "domain">>, <<"R", "cidr">>, <<"RU", "cidr">>,
      <<"L", "cache">>, <<"U", "cache">>>>

\* AddListener, RemoveListener and StopWatching: m.mu for the whole call
ManagerLocks == <<<<"L", "mmu">>, <<"U", "mmu">>>>

Threads == {"Start", "Stop", "LoadConfig", "ServeDNS", "AddListener", "StopWatching"}

LockProgram(t) ==
    CASE t = "Start" -> StartLocks
      [] t = "Stop" -> StopLocks
      [] t = "LoadConfig" -> LoadConfigLocks
      [] t = "ServeDNS" -> ServeDNSLocks
      [] OTHER -> ManagerLocks

LockDone(t) == fn.pc[t] > Len(LockProgram(t))

LockOp(t) == LockProgram(t)[fn.pc[t]]

\* sync.RWMutex: Lock needs the lock free; RLock needs no writer, and waits
\* behind a Lock call that is itself waiting for readers; Shutdown returns
\* when no handler is in the middle of a request
CanLockStep(t) ==
    /\ ~LockDone(t)
    /\ LET o == LockOp(t) IN
       CASE o[1] = "L" -> fn.w[o[2]] = "none" /\ fn.r[o[2]] = {}
         [] o[1] = "R" ->
              /\ fn.w[o[2]] = "none"
              /\ ~(/\ fn.r[o[2]] # {}
                   /\ \E u \in Threads \ {t} :
                        ~LockDone(u) /\ LockOp(u) = <<"L", o[2]>>)
         [] o[1] = "W" -> fn.pc["ServeDNS"] = 1 \/ LockDone("ServeDNS")
         [] OTHER -> TRUE

\* one lock operation of goroutine t
LockStep(t) ==
    /\ fn.op = "locks"
    /\ CanLockStep(t)
    /\ LET o == LockOp(t) IN
       fn' = [fn EXCEPT
                !.pc[t] = @ + 1,
                !.w[o[2]] = IF o[1] = "L" THEN t
                            ELSE IF o[1] = "U" THEN "none" ELSE @,
                !.r[o[2]] = IF o[1] = "R" THEN @ \cup {t}
                            ELSE IF o[1] = "RU" THEN @ \ {t} ELSE @]
    /\ UNCHANGED <<mConfig, serverVars, entries, workerPool, poolCap, h, rl, now,
                   crashed, lsn>>

\* Start, Stop, a reload with its notification, a request, a listener
\* registration and StopWatching, interleaved in every order
SpecLock ==
    /\ NewServer(CfgA)
    /\ fn = [op |-> "locks", pc |-> [t \in Threads |-> 1],
             w |-> [l \in Locks |-> "none"], r |-> [l \in Locks |-> {}]]
    /\ [][\E t \in Threads : LockStep(t)]_vars

\* C40: in every state reached by interleaving the goroutines, either all of
\* them have finished or one of them can take its next step: no set of
\* goroutines waits for locks that only its own members can release.
C40_NoLockCycle ==
    fn.op = "locks"
    => \/ \A t \in Threads : LockDone(t)
       \/ \E t \in Threads : CanLockStep(t)

\* Stop waits for s.mu, which the reload holds inside OnConfigChange, while
\* the request holds the cache lock for reading and AddListener waits for
\* m.mu, which StopWatching holds
C40_Witness ==
    /\ fn.op = "locks"
    /\ fn.w["smu"] = "LoadConfig" /\ fn.w["reload"] = "LoadConfig"
    /\ ~LockDone("Stop") /\ LockOp("Stop") = <<"L", "smu">>
    /\ fn.r["cache"] = {"ServeDNS"}
    /\ fn.w["mmu"] = "StopWatching"
    /\ fn.pc["AddListener"] = 1
    /\ LockDone("Start")

====
